---- MODULE Spec2Model ----
(***************************************************************************)
(* A model of the client side of viamrobotics/rust-utils' gRPC-over-WebRTC  *)
(* transport: the outbound framing of WebRTCClientChannel::write_message,   *)
(* stream-id allocation, the base channel's close, and the done-or-error    *)
(* update of the signalling negotiation in maybe_connect_via_webrtc.        *)
(***************************************************************************)
EXTENDS Integers, Sequences, FiniteSets, TLC

VARIABLES
    \* ---- write_message (src/src/rpc/client_channel.rs:187-276) ----
    w_in,          \* the buffer the call is given (P), as the description it is built from
    w_pc,          \* position of the call: "idle", "outer", "inner", "done"
    w_caller,      \* "none", "create_resp" (the facade) or "write_message" (a direct call)
    w_eos,         \* the eos argument (E)
    w_has_message, \* line 194
    w_stream,      \* it_was_all_a_stream, line 212
    w_data,        \* the local `data`, a slice of the buffer
    w_nml,         \* next_message_length
    w_sent,        \* the Message frames handed to the data channel, in order
    w_result       \* "none", "Ok", "Err" (framing error), "SendErr", "Panic"

wvars == <<w_in, w_pc, w_caller, w_eos, w_has_message, w_stream, w_data,
           w_nml, w_sent, w_result>>

VARIABLES
    \* ---- new_stream (src/src/rpc/client_channel.rs:106-128) ----
    stream_id_counter, \* the channel's AtomicU64
    streams,           \* keys of the stream table
    receiver_bodies,   \* keys of the pending response bodies
    s_pc,              \* per caller: "idle", "fetched", "inserted"
    s_id,              \* per caller: the id its fetch_add returned
    s_allocated        \* the ids handed out, in the order of the fetch_adds

svars == <<stream_id_counter, streams, receiver_bodies, s_pc, s_id, s_allocated>>

VARIABLES
    \* ---- WebRTCBaseChannel (src/src/rpc/base_channel.rs) ----
    closed,            \* AtomicBool closed
    should_close,      \* AtomicBool should_close
    closed_reason,     \* "none" or "error": what the AtomicPtr holds
    pc_close_calls,    \* how often peer_connection.close() was invoked
    b_pc,              \* per caller of close: "idle", "load", "store", "peer", "returned"
    b_ret,             \* per caller: "none", "Ok", "Err"
    b_after,           \* per caller: its call began after some close had returned
    b_closed_peer      \* per caller: its call invoked peer_connection.close()

bvars == <<closed, should_close, closed_reason, pc_close_calls, b_pc, b_ret,
           b_after, b_closed_peer>>

VARIABLES
    \* ---- maybe_connect_via_webrtc (src/src/rpc/dial.rs:742-1009) ----
    disable_trickle_ice,    \* webrtc_options.disable_trickle_ice
    sent_done_or_error,     \* line 765
    uuid_lock,              \* line 766: "" until an Init response is handled
    is_open,                \* line 768: set by the data channel's on_open
    exchange_done,          \* line 775
    remote_description_set, \* line 776
    ice_done,               \* line 777
    init_received,          \* line 866, local to the response task
    n_pc,                   \* position of "main", "task" (the spawned task) and "ice" (the callback)
    n_once,                 \* per process: the update its send_*_once call is to send
    n_result,               \* what maybe_connect_via_webrtc returned: "none", "Ok", "Err"
    n_channel,              \* the client channel: "none", "alive", "dropped"
    n_resp,                 \* the Call response the task is handling
    n_reads,                \* responses the task has read
    n_cand,                 \* the candidate the callback is handling: "Some", "None" or "none"
    n_cands,                \* local candidates delivered so far
    n_gathered,             \* ICE gathering: "off", "gathering", "complete" (the final None was delivered)
    n_remote_candidates,    \* remote candidates added to the peer connection
    n_updates               \* the CallUpdate requests issued, in order

nvars == <<disable_trickle_ice, sent_done_or_error, uuid_lock, is_open,
           exchange_done, remote_description_set, ice_done, init_received,
           n_pc, n_once, n_result, n_channel, n_resp, n_reads, n_cand, n_cands,
           n_gathered, n_remote_candidates, n_updates>>

VARIABLES
    \* ---- DialBuilder::connect / connect_inner (src/src/rpc/dial.rs:462-682) ----
    c_opts,        \* the builder's options (DialOptions, lines 184-191)
    c_pc,          \* position of connect: "idle", "start", "mdns", "primary", "auth", "webrtc", "negotiating", "returned"
    c_discovery,   \* mDNS discovery: "none", "not_run", "absent", "timeout", "unusable", "found"
    c_mdns_uri,    \* the mdns_uri connect_inner is given: "none" or "some"
    c_attempts,    \* the transport connections attempted, in order
    c_channel,     \* the direct transport in use: "none", "mdns", "primary"
    c_auth,        \* the Authenticate exchange: "none", "ok", "failed"
    c_result,      \* what connect returned: "none", "Err", "Direct", "WebRTC"
    c_log          \* the log lines connect has emitted, in order

cvars == <<c_opts, c_pc, c_discovery, c_mdns_uri, c_attempts, c_channel, c_auth, c_result,
           c_log>>

VARIABLES
    \* ---- inbound dispatch (src/src/rpc/client_channel.rs:82-99, 130-164) ----
    i_streams,     \* per stream id: the client stream (flags, reassembly buffer, what its body sink was given)
    i_error,       \* the channel's error slot (line 70): "None" or "Some"
    i_count,       \* datagrams dispatched
    i_last         \* the frame dispatched last

ivars == <<i_streams, i_error, i_count, i_last>>

VARIABLES
    h_sent,        \* Headers frames write_headers has handed to the data channel
    b_read         \* a reader of closed_reason(): what the slot held and what the read gave

ovars == <<h_sent, b_read>>

VARIABLES
    \* ---- ViamChannel::call, WebRTC variant (src/src/rpc/dial.rs:84-179) ----
    k_counter,     \* stream_id_counter at its full width: four 16-bit limbs, most significant first
    k_wrapped,     \* the counter has overflowed: every id has been handed out
    k_streams,     \* ids in the stream table
    k_bodies,      \* ids with a pending response body
    k_pc,          \* the call: "idle", "headers", "message", "body", "done"
    k_id,          \* the id new_stream gave the call
    k_exhausted,   \* the counter had overflowed when the call allocated its stream
    k_status_code, \* create_resp's status_code
    k_frames,      \* the frames the call handed to the data channel
    k_response,    \* the response returned: its grpc-status headers and its body
    k_calls        \* calls made

kvars == <<k_counter, k_wrapped, k_streams, k_bodies, k_pc, k_id, k_exhausted,
           k_status_code, k_frames, k_response, k_calls>>

VARIABLES
    \* ---- the signalling server and the Call stream, as the negotiation meets them ----
    g_silent,      \* the unary RPC the signalling server never answers: "none", "config", "call" or "update"
    g_late         \* the response the task has in hand was read after the client channel was dropped

gvars == <<g_silent, g_late>>

VARIABLES
    \* ---- concurrent calls of ViamChannel::call on one channel (src/src/rpc/dial.rs:85-179) ----
    q_step,        \* per call: 0 before the call, then its place in CreateRespSteps, past them when it has returned
    q_id,          \* per call: the id of its stream
    q_packets,     \* per call: the packets its write_message is to send
    q_sent,        \* per call: the packets its write_message has sent
    q_headers,     \* per call: its write_headers: "none", "sent" or "failed"
    q_out          \* the frames handed to the data channel, in order

qvars == <<q_step, q_id, q_packets, q_sent, q_headers, q_out>>

vars == <<wvars, svars, bvars, nvars, cvars, ivars, ovars, kvars, gvars, qvars>>

\* An action of one part of the program leaves the other parts alone.
OnlyW == UNCHANGED <<svars, bvars, nvars, cvars, ivars, ovars, kvars, gvars, qvars>>
OnlyS == UNCHANGED <<wvars, bvars, nvars, cvars, ivars, ovars, kvars, gvars, qvars>>
OnlyB == UNCHANGED <<wvars, svars, nvars, cvars, ivars, ovars, kvars, gvars, qvars>>
OnlyN == UNCHANGED <<wvars, svars, bvars, cvars, ivars, ovars, kvars, gvars, qvars>>
\* connect's steps move the negotiation's main position and nothing else of it
OnlyC == UNCHANGED <<wvars, svars, bvars, ivars, ovars, kvars, gvars, qvars>>
\* inbound dispatch also removes streams from the stream table
OnlyI == UNCHANGED <<wvars, bvars, nvars, cvars, ovars, kvars, gvars, qvars>>
OnlyO == UNCHANGED <<wvars, svars, bvars, nvars, cvars, ivars, kvars, gvars, qvars>>
OnlyK == UNCHANGED <<wvars, svars, bvars, nvars, cvars, ivars, ovars, gvars, qvars>>
\* concurrent calls allocate streams and remove them from the stream table
OnlyQ == UNCHANGED <<wvars, bvars, nvars, cvars, ivars, ovars, kvars, gvars>>
\* a step of the negotiation that reads the Call stream
OnlyNG == UNCHANGED <<wvars, svars, bvars, cvars, ivars, ovars, kvars, g_silent, qvars>>

----------------------------------------------------------------------------
(* Bounds of the model. *)

\* Most concatenated small frames in one input buffer.
MaxFrames == 3
\* Most Message frames one call may emit before the model stops following it
\* (a buffer whose header declares more bytes than it holds never leaves the
\* inner loop).
MaxSends == 6

\* Concurrent callers of new_stream, and the streams they allocate in all.
NumCallers == 3
MaxStreams == 4
\* Concurrent callers of the base channel's close.
NumClosers == 3

\* Local ICE candidates gathered before the final one, and Call responses the
\* response task reads before the stream ends or fails.
MaxCandidates == 1
MaxResponses == 2

\* Streams open when inbound frames arrive, datagrams dispatched, and Headers
\* frames written.
MaxOpenStreams == 2
MaxInbound == 4
MaxHeaders == 2

\* Calls made through the channel.
MaxCalls == 3

\* Calls in progress at once on one channel, and the most packets one of
\* them sends.
MaxConcurrentCalls == 2
MaxPackets == 2
\* Frames followed on the data channel: enough for every call above to send
\* its Headers frame and all of its packets.
MaxOutbound == 6

(* Program constants. *)
MAX_REQUEST_MESSAGE_PACKET_DATA_SIZE == 16373

----------------------------------------------------------------------------
(* Byte sequences and the input buffers. *)

Min(a, b) == IF a <= b THEN a ELSE b

\* The 5-byte gRPC frame header: compressed flag, big-endian u32 length.
GrpcHeader(flag, len) ==
    << flag, (len \div 16777216) % 256, (len \div 65536) % 256,
       (len \div 256) % 256, len % 256 >>

\* A payload of len bytes whose content depends on the position and a seed.
Payload(len, seed) == [i \in 1..len |-> (i * 7 + seed) % 256]

GrpcFrame(flag, len, seed) == GrpcHeader(flag, len) \o Payload(len, seed)

RECURSIVE Buffer(_, _, _)
Buffer(flag, lens, seed) ==
    IF lens = <<>> THEN <<>>
    ELSE GrpcFrame(flag, Head(lens), seed) \o Buffer(flag, Tail(lens), seed + 1)

SmallLens == {0, 1, 10}
BigLens == { MAX_REQUEST_MESSAGE_PACKET_DATA_SIZE - 1,
             MAX_REQUEST_MESSAGE_PACKET_DATA_SIZE,
             MAX_REQUEST_MESSAGE_PACKET_DATA_SIZE + 1,
             2 * MAX_REQUEST_MESSAGE_PACKET_DATA_SIZE,
             2 * MAX_REQUEST_MESSAGE_PACKET_DATA_SIZE + 1,
             40000 }

RECURSIVE SeqsUpTo(_, _)
SeqsUpTo(S, n) ==
    IF n = 0 THEN {<<>>}
    ELSE LET shorter == SeqsUpTo(S, n - 1)
         IN  shorter \cup {<<x>> \o s : x \in S, s \in {t \in shorter : Len(t) = n - 1}}

\* The frame lengths of the well-formed buffers: one frame of any length, up to
\* MaxFrames small frames, and pairs that put a fragmented frame beside
\* another frame.
LenSeqs ==
    {<<l>> : l \in SmallLens \cup BigLens}
    \cup {s \in SeqsUpTo(SmallLens, MaxFrames) : Len(s) >= 2}
    \cup {<<a, b>> : a \in {10, MAX_REQUEST_MESSAGE_PACKET_DATA_SIZE + 1},
                     b \in {0, MAX_REQUEST_MESSAGE_PACKET_DATA_SIZE + 1}}

\* A buffer is described by the frames it is built from (their compressed
\* flag and lengths), the number of bytes cut from its end and the number of
\* stray bytes added after it.
WellFormedInputs ==
    {[flag |-> f, lens |-> ls, cut |-> 0, pad |-> 0] : f \in {0, 1}, ls \in LenSeqs}
\* shorter than a frame header (0..4 bytes)
ShortInputs ==
    {[flag |-> 0, lens |-> <<1>>, cut |-> c, pad |-> 0] : c \in 2..6}
\* a frame followed by 1..4 stray bytes
TrailingInputs ==
    {[flag |-> 0, lens |-> <<l>>, cut |-> 0, pad |-> k] :
        l \in {10, MAX_REQUEST_MESSAGE_PACKET_DATA_SIZE + 1}, k \in 1..4}
\* a header that declares more payload bytes than the buffer holds
TruncatedInputs ==
    {[flag |-> 0, lens |-> <<10>>, cut |-> c, pad |-> 0] : c \in {7, 10}}

Inputs == WellFormedInputs \cup ShortInputs \cup TrailingInputs \cup TruncatedInputs

BufferOf(d) ==
    LET whole == Buffer(d.flag, d.lens, 3)
    IN  SubSeq(whole, 1, Len(whole) - d.cut) \o SubSeq(<<0, 0, 0, 9>>, 1, d.pad)

\* The bytes of the buffer the call was given.
Input == BufferOf(w_in)

----------------------------------------------------------------------------
(* Byte vectors of write_message.  Every vector the function handles is a   *)
(* contiguous part of its input; it is recorded as [off, len], the bytes    *)
(* Input[off+1 .. off+len], and its bytes are read from the input.          *)

Slice(off, len) == [off |-> off, len |-> len]
Bytes(s) == SubSeq(Input, s.off + 1, s.off + s.len)
\* data[i], 0-based as in the source
ByteAt(s, i) == Input[s.off + i + 1]
IsEmpty(s) == s.len = 0
\* Vec::split_off(n) / slice::split_at(n).1: what follows the first n bytes.
DropFirst(s, n) == Slice(s.off + n, s.len - n)
\* slice::split_at(n).0: the first n bytes.
TakeFirst(s, n) == Slice(s.off, n)

----------------------------------------------------------------------------
(* write_message, client_channel.rs:187-276. *)

\* lines 207-208, 225-226: u32::from_be_bytes(data[1..5])
FromBeBytes(d) ==
    ByteAt(d, 1) * 16777216 + ByteAt(d, 2) * 65536 + ByteAt(d, 3) * 256 + ByteAt(d, 4)

\* line 212: usize::try_from(next_message_length).unwrap() + 5 < data.len()
ItWasAllAStreamNever(len, dataLen) == FALSE      \* a variant that never detects a second frame
ItWasAllAStream(len, dataLen) == len + 5 < dataLen

\* lines 235-237
SplitAtUnbounded(data, nml) == Min(data.len, nml) \* a variant without the packet-size cap
SplitAt(data, nml) ==
    Min(Min(MAX_REQUEST_MESSAGE_PACKET_DATA_SIZE, data.len), nml)

\* line 238: (to_send, remaining) = data.split_at(split_at)
ToSendWhole(data, split_at) == data              \* a variant that sends the whole of data
ToSend(data, split_at) == TakeFirst(data, split_at)
Remaining(data, split_at) == DropFirst(data, split_at)

\* lines 245-252: eos of the packet, given what remains after it
PacketEosEarly(remaining, eos, stream) == eos \/ stream \* a variant that ignores what remains
PacketEos(remaining, eos, stream) ==
    IF ~IsEmpty(remaining) THEN FALSE ELSE eos \/ stream

\* line 254: eom of the packet, given next_message_length after the split
PacketEomAlways(nmlAfter, remaining) == TRUE     \* a variant that ends the message on every packet
PacketEom(nmlAfter, remaining) == nmlAfter = 0 \/ IsEmpty(remaining)

\* dial.rs:112: the eos argument create_resp passes
CreateRespEosTrue == TRUE                        \* a variant passing true
CreateRespEos == FALSE

\* The data channel carries frames until peer_connection.close() has
\* succeeded (base_channel.rs:125-128).
DataChannelOpen == ~\E p \in DOMAIN b_pc : b_closed_peer[p] /\ b_ret[p] = "Ok"

\* lines 194-212: the call, up to the outer loop.  data[1..5] is sliced before
\* any length check, so a buffer shorter than 5 bytes panics here.
Enter(caller, eos) ==
    /\ w_pc = "idle"
    /\ w_caller' = caller
    /\ w_eos' = eos
    /\ w_has_message' = (Len(Input) # 0)
    /\ w_data' = Slice(0, Len(Input))
    /\ IF Len(Input) < 5
       THEN /\ w_pc' = "done"
            /\ w_result' = "Panic"
            /\ UNCHANGED <<w_stream, w_nml>>
       ELSE /\ w_pc' = "outer"
            /\ w_nml' = FromBeBytes(Slice(0, Len(Input)))
            /\ w_stream' = ItWasAllAStream(FromBeBytes(Slice(0, Len(Input))), Len(Input))
            /\ UNCHANGED w_result
    /\ UNCHANGED <<w_in, w_sent>>
    /\ OnlyW

\* dial.rs:111-116: the facade reads the whole body and calls write_message
CreateRespWriteMessage == Enter("create_resp", CreateRespEos)

\* a call of write_message with either value of eos
WriteMessage == \E eos \in BOOLEAN : Enter("write_message", eos)

\* lines 217-227: the head of the outer loop
OuterLoop ==
    /\ w_pc = "outer"
    /\ IF w_data.len < 5
       THEN /\ w_pc' = "done"
            /\ w_result' = "Err"
            /\ UNCHANGED <<w_data, w_nml>>
       ELSE /\ w_pc' = "inner"
            /\ w_nml' = FromBeBytes(w_data)
            /\ w_data' = DropFirst(w_data, 5)
            /\ UNCHANGED w_result
    /\ UNCHANGED <<w_in, w_caller, w_eos, w_has_message, w_stream, w_sent>>
    /\ OnlyW

\* lines 235-273: one pass of the inner loop whose send succeeds, and the
\* exit checks that follow it
InnerSend ==
    /\ w_pc = "inner"
    /\ Len(w_sent) < MaxSends
    /\ DataChannelOpen
    /\ LET split_at  == SplitAt(w_data, w_nml)
           to_send   == ToSend(w_data, split_at)
           remaining == Remaining(w_data, split_at)
           nmlAfter  == w_nml - split_at
           request   == [ has_message |-> w_has_message,
                          eos  |-> PacketEos(remaining, w_eos, w_stream),
                          eom  |-> PacketEom(nmlAfter, remaining),
                          data |-> to_send ]
       IN  /\ w_sent' = Append(w_sent, request)
           /\ w_data' = remaining
           /\ w_nml' = nmlAfter
           /\ IF nmlAfter # 0
              THEN w_pc' = "inner" /\ UNCHANGED w_result
              ELSE IF IsEmpty(remaining)
                   THEN w_pc' = "done" /\ w_result' = "Ok"
                   ELSE w_pc' = "outer" /\ UNCHANGED w_result
    /\ UNCHANGED <<w_in, w_caller, w_eos, w_has_message, w_stream>>
    /\ OnlyW

\* lines 261-264: the send fails, the call returns its error
InnerSendFails ==
    /\ w_pc = "inner"
    /\ Len(w_sent) < MaxSends
    /\ w_pc' = "done"
    /\ w_result' = "SendErr"
    /\ UNCHANGED <<w_in, w_caller, w_eos, w_has_message, w_stream, w_data,
                   w_nml, w_sent>>
    /\ OnlyW

WIdle ==
    /\ w_pc = "idle"
    /\ w_caller = "none"
    /\ w_eos = FALSE
    /\ w_has_message = FALSE
    /\ w_stream = FALSE
    /\ w_data = Slice(0, 0)
    /\ w_nml = 0
    /\ w_sent = <<>>
    /\ w_result = "none"

WInit == w_in \in Inputs /\ WIdle


----------------------------------------------------------------------------
(* new_stream, client_channel.rs:106-128. *)

Callers == 1..NumCallers

\* line 107: AtomicU64::fetch_add(1) leaves counter + 1.  The counter starts
\* at 0 and wraps only after 2^64 allocations, beyond any run followed here
\* (and beyond the integers of the model checker), so no wrap is written.
FetchAddStuck(counter) == counter                \* a variant that does not advance the counter
FetchAdd(counter) == counter + 1

\* line 107: the fetch_add is one atomic step; it returns the old value
NewStreamFetchAdd(c) ==
    /\ s_pc[c] = "idle"
    /\ Len(s_allocated) < MaxStreams
    /\ s_id' = [s_id EXCEPT ![c] = stream_id_counter]
    /\ stream_id_counter' = FetchAdd(stream_id_counter)
    /\ s_allocated' = Append(s_allocated, stream_id_counter)
    /\ s_pc' = [s_pc EXCEPT ![c] = "fetched"]
    /\ UNCHANGED <<streams, receiver_bodies>>
    /\ OnlyS

\* line 125: streams.insert(id, client_stream)
NewStreamInsertStream(c) ==
    /\ s_pc[c] = "fetched"
    /\ streams' = streams \cup {s_id[c]}
    /\ s_pc' = [s_pc EXCEPT ![c] = "inserted"]
    /\ UNCHANGED <<stream_id_counter, receiver_bodies, s_id, s_allocated>>
    /\ OnlyS

\* lines 126-127: receiver_bodies.insert(id, receiver_body); return stream
NewStreamInsertBody(c) ==
    /\ s_pc[c] = "inserted"
    /\ receiver_bodies' = receiver_bodies \cup {s_id[c]}
    /\ s_pc' = [s_pc EXCEPT ![c] = "idle"]
    /\ UNCHANGED <<stream_id_counter, streams, s_id, s_allocated>>
    /\ OnlyS

SInit ==
    /\ stream_id_counter = 0
    /\ streams = {}
    /\ receiver_bodies = {}
    /\ s_pc = [c \in Callers |-> "idle"]
    /\ s_id = [c \in Callers |-> 0]
    /\ s_allocated = <<>>


----------------------------------------------------------------------------
(* WebRTCBaseChannel, base_channel.rs. *)

Closers == 1..NumClosers

\* line 120: if self.closed.load(Acquire) { return Ok(()) }
AlreadyClosedNever(flag) == FALSE                \* a variant without the early return
AlreadyClosed(flag) == flag

\* line 123: the value close_with_reason stores into closed
ClosedValueFalse == FALSE                        \* a variant storing false
ClosedValue == TRUE

\* lines 133-135: close() is called
CloseCall(p) ==
    /\ b_pc[p] = "idle"
    /\ b_pc' = [b_pc EXCEPT ![p] = "load"]
    /\ b_after' = [b_after EXCEPT ![p] = \E q \in Closers : b_pc[q] = "returned"]
    /\ UNCHANGED <<closed, should_close, closed_reason, pc_close_calls, b_ret,
                   b_closed_peer>>
    /\ OnlyB

\* lines 120-122: the load of closed, and the early return
CloseLoad(p) ==
    /\ b_pc[p] = "load"
    /\ IF AlreadyClosed(closed)
       THEN /\ b_pc' = [b_pc EXCEPT ![p] = "returned"]
            /\ b_ret' = [b_ret EXCEPT ![p] = "Ok"]
       ELSE /\ b_pc' = [b_pc EXCEPT ![p] = "store"]
            /\ UNCHANGED b_ret
    /\ UNCHANGED <<closed, should_close, closed_reason, pc_close_calls, b_after,
                   b_closed_peer>>
    /\ OnlyB

\* line 123: self.closed.store(true, Release)
CloseStore(p) ==
    /\ b_pc[p] = "store"
    /\ closed' = ClosedValue
    /\ b_pc' = [b_pc EXCEPT ![p] = "peer"]
    /\ UNCHANGED <<should_close, closed_reason, pc_close_calls, b_ret, b_after,
                   b_closed_peer>>
    /\ OnlyB

\* lines 125-128: peer_connection.close().await, whose result is returned
ClosePeer(p) ==
    /\ b_pc[p] = "peer"
    /\ pc_close_calls' = pc_close_calls + 1
    /\ b_closed_peer' = [b_closed_peer EXCEPT ![p] = TRUE]
    /\ b_pc' = [b_pc EXCEPT ![p] = "returned"]
    /\ \E r \in {"Ok", "Err"} : b_ret' = [b_ret EXCEPT ![p] = r]
    /\ UNCHANGED <<closed, should_close, closed_reason, b_after>>
    /\ OnlyB

\* lines 89-104: the data channel's on_error callback
OnDataChannelError ==
    /\ closed_reason = "none"
    /\ closed_reason' = "error"
    /\ should_close' = TRUE
    /\ UNCHANGED <<closed, pc_close_calls, b_pc, b_ret, b_after, b_closed_peer>>
    /\ OnlyB

\* lines 138-140
is_closed == closed

BInit ==
    /\ closed = FALSE
    /\ should_close = FALSE
    /\ closed_reason = "none"
    /\ pc_close_calls = 0
    /\ b_pc = [p \in Closers |-> "idle"]
    /\ b_ret = [p \in Closers |-> "none"]
    /\ b_after = [p \in Closers |-> FALSE]
    /\ b_closed_peer = [p \in Closers |-> FALSE]


----------------------------------------------------------------------------
(* maybe_connect_via_webrtc, dial.rs:685-1009.  The dial path ("main"), the *)
(* spawned response task ("task") and the ICE-candidate callback ("ice")    *)
(* run on a multi-threaded executor: each step below is one atomic          *)
(* operation on the shared flags, or one awaited call.                      *)

Uuids == {"u1", "u2"}

\* What the signalling server may put on the Call response stream.
Responses ==
    {[stage |-> "Init", uuid |-> u, ok |-> k] : u \in Uuids, k \in BOOLEAN}
    \cup {[stage |-> "Update", uuid |-> u, ok |-> k] : u \in Uuids, k \in BOOLEAN}
    \cup {[stage |-> "None", uuid |-> "u1", ok |-> TRUE]}

NoResp == [stage |-> "none", uuid |-> "", ok |-> TRUE]
NoOnce == [kind |-> "none", uuid |-> ""]

Goto(p, pc) == n_pc' = [n_pc EXCEPT ![p] = pc]

\* The unary RPCs of the negotiation: optional_web_rtc_config (lines 748-751),
\* call (line 859) and call_update (lines 691-693, 825-829).
UnaryRpcs == {"config", "call", "update"}

\* lines 748-751, 859, 691-693: these calls are awaited as they are, with no
\* deadline around them; each returns when the server has answered
Answered(rpc) == g_silent # rpc

\* a signalling server that answers every RPC, and no response in hand
GIdle == g_silent = "none" /\ g_late = FALSE

\* lines 707-709 and 730-732: the early return of send_error_once and
\* send_done_once
AlreadySent(flag) == flag

\* where a process continues when its send_*_once call returns: the dial
\* path returns (line 1008), the response task breaks out of its loop (lines
\* 883, 898, 916, 940, 946, 955, 965, 984), the callback's future ends
AfterOnceResumes(p) == IF p = "main" THEN "returned" ELSE IF p = "task" THEN "read" ELSE "idle"  \* a variant in which the task reads on
AfterOnce(p) == IF p = "main" THEN "returned" ELSE IF p = "task" THEN "stopped" ELSE "idle"

\* a call of send_done_once (kind "Done") or send_error_once (kind "Error")
CallOnce(p, kind, uuid) ==
    /\ Goto(p, "once_load")
    /\ n_once' = [n_once EXCEPT ![p] = [kind |-> kind, uuid |-> uuid]]

\* lines 707, 730: sent.load(Acquire), and the early return
OnceLoad(p) ==
    /\ n_pc[p] = "once_load"
    /\ IF AlreadySent(sent_done_or_error)
       THEN /\ Goto(p, AfterOnce(p))
            /\ n_once' = [n_once EXCEPT ![p] = NoOnce]
            /\ n_result' = IF p = "main" THEN "Ok" ELSE n_result
       ELSE /\ Goto(p, "once_store")
            /\ UNCHANGED <<n_once, n_result>>
    /\ UNCHANGED <<disable_trickle_ice, sent_done_or_error, uuid_lock, is_open,
                   exchange_done, remote_description_set, ice_done, init_received,
                   n_channel, n_resp, n_reads, n_cand, n_cands, n_gathered,
                   n_remote_candidates, n_updates>>
    /\ OnlyN

\* lines 716, 733: sent.store(true, Release)
OnceStore(p) ==
    /\ n_pc[p] = "once_store"
    /\ sent_done_or_error' = TRUE
    /\ Goto(p, "once_send")
    /\ UNCHANGED <<disable_trickle_ice, uuid_lock, is_open, exchange_done,
                   remote_description_set, ice_done, init_received, n_once,
                   n_result, n_channel, n_resp, n_reads, n_cand, n_cands,
                   n_gathered, n_remote_candidates, n_updates>>
    /\ OnlyN

\* lines 717-722, 734-739 and 685-699: the update is built and call_update is
\* issued and awaited; its failure is only logged.  The caller goes on when
\* the call has returned.
OnceSend(p) ==
    /\ n_pc[p] = "once_send"
    /\ n_updates' = Append(n_updates, n_once[p])
    /\ n_once' = [n_once EXCEPT ![p] = NoOnce]
    /\ IF Answered("update")
       THEN /\ Goto(p, AfterOnce(p))
            /\ n_result' = IF p = "main" THEN "Ok" ELSE n_result
       ELSE /\ Goto(p, "once_await")
            /\ UNCHANGED n_result
    /\ UNCHANGED <<disable_trickle_ice, sent_done_or_error, uuid_lock, is_open,
                   exchange_done, remote_description_set, ice_done, init_received,
                   n_channel, n_resp, n_reads, n_cand, n_cands, n_gathered,
                   n_remote_candidates>>
    /\ OnlyN

\* ---- the dial path ----

\* the `?` and early returns before the Call stream is open: lines 749-757
\* (config fetch), 762-763 (peer connection), 781 (offer), 846 (local
\* description), 850 (sdp) and 859 (Call); the client channel exists from
\* line 856 on and is dropped with the error of line 859
MainFails ==
    /\ n_pc["main"] \in {"config", "peer", "offer", "set_local", "call"}
    /\ n_pc["main"] \in UnaryRpcs => Answered(n_pc["main"])
    /\ Goto("main", "returned")
    /\ n_result' = "Err"
    /\ UNCHANGED <<disable_trickle_ice, sent_done_or_error, uuid_lock, is_open,
                   exchange_done, remote_description_set, ice_done, init_received,
                   n_once, n_channel, n_resp, n_reads, n_cand, n_cands,
                   n_gathered, n_remote_candidates, n_updates>>
    /\ OnlyN

\* lines 749-763 and 780-846: the config is fetched, the peer connection made,
\* and with trickle ICE the offer created, the callback installed and the
\* local description set
MainSetsUp ==
    /\ n_pc["main"] \in {"config", "peer", "offer", "set_local"}
    /\ n_pc["main"] = "config" => Answered("config")
    /\ Goto("main", CASE n_pc["main"] = "config" -> "peer"
                      [] n_pc["main"] = "peer" ->
                             IF disable_trickle_ice THEN "call" ELSE "offer"
                      [] n_pc["main"] = "offer" -> "set_local"
                      [] n_pc["main"] = "set_local" -> "call")
    /\ n_gathered' = IF n_pc["main"] = "set_local" THEN "gathering" ELSE n_gathered
    /\ UNCHANGED <<disable_trickle_ice, sent_done_or_error, uuid_lock, is_open,
                   exchange_done, remote_description_set, ice_done, init_received,
                   n_once, n_result, n_channel, n_resp, n_reads, n_cand, n_cands,
                   n_remote_candidates, n_updates>>
    /\ OnlyN

\* lines 849-993: the client channel is made, the Call stream opened and the
\* response task spawned
MainCalls ==
    /\ n_pc["main"] = "call"
    /\ Answered("call")
    /\ n_channel' = "alive"
    /\ n_pc' = [n_pc EXCEPT !["main"] = "wait_open", !["task"] = "read"]
    /\ UNCHANGED <<disable_trickle_ice, sent_done_or_error, uuid_lock, is_open,
                   exchange_done, remote_description_set, ice_done, init_received,
                   n_once, n_result, n_resp, n_reads, n_cand, n_cands,
                   n_gathered, n_remote_candidates, n_updates>>
    /\ OnlyN

\* lines 1001-1003: the bounded wait for the data channel to open ends
MainWaitOpen ==
    /\ n_pc["main"] = "wait_open"
    /\ IF is_open
       THEN /\ Goto("main", "exchange_done")
            /\ UNCHANGED <<n_result, n_channel>>
       ELSE /\ Goto("main", "returned")
            /\ n_result' = "Err"
            /\ n_channel' = "dropped"
    /\ UNCHANGED <<disable_trickle_ice, sent_done_or_error, uuid_lock, is_open,
                   exchange_done, remote_description_set, ice_done, init_received,
                   n_once, n_resp, n_reads, n_cand, n_cands, n_gathered,
                   n_remote_candidates, n_updates>>
    /\ OnlyN

\* line 1005: exchange_done.store(true, Release)
MainExchangeDone ==
    /\ n_pc["main"] = "exchange_done"
    /\ exchange_done' = TRUE
    /\ Goto("main", "read_uuid")
    /\ UNCHANGED <<disable_trickle_ice, sent_done_or_error, uuid_lock, is_open,
                   remote_description_set, ice_done, init_received, n_once,
                   n_result, n_channel, n_resp, n_reads, n_cand, n_cands,
                   n_gathered, n_remote_candidates, n_updates>>
    /\ OnlyN

\* lines 1006-1007: the uuid is read and send_done_once called
MainSendDone ==
    /\ n_pc["main"] = "read_uuid"
    /\ CallOnce("main", "Done", uuid_lock)
    /\ UNCHANGED <<disable_trickle_ice, sent_done_or_error, uuid_lock, is_open,
                   exchange_done, remote_description_set, ice_done, init_received,
                   n_result, n_channel, n_resp, n_reads, n_cand, n_cands,
                   n_gathered, n_remote_candidates, n_updates>>
    /\ OnlyN

\* lines 770-773: the data channel's on_open callback; the channel opens only
\* once the remote description is set
OnOpen ==
    /\ n_channel = "alive"
    /\ remote_description_set
    /\ ~is_open
    /\ is_open' = TRUE
    /\ UNCHANGED <<disable_trickle_ice, sent_done_or_error, uuid_lock,
                   exchange_done, remote_description_set, ice_done, init_received,
                   n_pc, n_once, n_result, n_channel, n_resp, n_reads, n_cand,
                   n_cands, n_gathered, n_remote_candidates, n_updates>>
    /\ OnlyN

\* ---- the ICE-candidate callback, lines 788-844 ----

\* lines 789-793: the peer connection hands the callback a candidate (Some),
\* or None when gathering is complete; with exchange_done set the callback
\* does nothing
IceCandidate ==
    /\ n_pc["ice"] = "idle"
    /\ n_gathered = "gathering"
    /\ \E c \in {"Some", "None"} :
          /\ c = "Some" => n_cands < MaxCandidates
          /\ n_cands' = IF c = "Some" THEN n_cands + 1 ELSE n_cands
          /\ n_gathered' = IF c = "None" THEN "complete" ELSE n_gathered
          /\ IF exchange_done
             THEN UNCHANGED <<n_pc, n_cand>>
             ELSE Goto("ice", "wait_rds") /\ n_cand' = c
    /\ UNCHANGED <<disable_trickle_ice, sent_done_or_error, uuid_lock, is_open,
                   exchange_done, remote_description_set, ice_done, init_received,
                   n_once, n_result, n_channel, n_resp, n_reads,
                   n_remote_candidates, n_updates>>
    /\ OnlyN

\* lines 800-803: webrtc_action_with_timeout(remote_description_set) is Ok
\* when the flag was seen set and Err when the wait timed out
WaitObservedAlways(flag) == TRUE                 \* a variant whose wait never times out
WaitObserved(flag) == flag

\* lines 799-806: the bounded wait for remote_description_set ends: the flag
\* was seen set, or the wait timed out and the callback returns
IceWaitRemoteDescription ==
    /\ n_pc["ice"] = "wait_rds"
    /\ IF WaitObserved(remote_description_set)
       THEN Goto("ice", "check_ice_done") /\ UNCHANGED n_cand
       ELSE Goto("ice", "idle") /\ n_cand' = "none"
    /\ UNCHANGED <<disable_trickle_ice, sent_done_or_error, uuid_lock, is_open,
                   exchange_done, remote_description_set, ice_done, init_received,
                   n_once, n_result, n_channel, n_resp, n_reads, n_cands,
                   n_gathered, n_remote_candidates, n_updates>>
    /\ OnlyN

\* lines 808-810: if ice_done.load(Acquire) { return }
IceCheckIceDone ==
    /\ n_pc["ice"] = "check_ice_done"
    /\ IF ice_done
       THEN Goto("ice", "idle") /\ n_cand' = "none"
       ELSE Goto("ice", "read_uuid") /\ UNCHANGED n_cand
    /\ UNCHANGED <<disable_trickle_ice, sent_done_or_error, uuid_lock, is_open,
                   exchange_done, remote_description_set, ice_done, init_received,
                   n_once, n_result, n_channel, n_resp, n_reads, n_cands,
                   n_gathered, n_remote_candidates, n_updates>>
    /\ OnlyN

\* line 811: the uuid is read for whatever update follows
IceReadUuid ==
    /\ n_pc["ice"] = "read_uuid"
    /\ n_once' = [n_once EXCEPT !["ice"] =
                     [kind |-> IF n_cand = "Some" THEN "Candidate" ELSE "Done",
                      uuid |-> uuid_lock]]
    /\ Goto("ice", IF n_cand = "Some" THEN "check_sent" ELSE "store_ice_done")
    /\ UNCHANGED <<disable_trickle_ice, sent_done_or_error, uuid_lock, is_open,
                   exchange_done, remote_description_set, ice_done, init_received,
                   n_result, n_channel, n_resp, n_reads, n_cand, n_cands,
                   n_gathered, n_remote_candidates, n_updates>>
    /\ OnlyN

\* lines 815-817: a candidate is dropped once done or error was sent
IceCheckSent ==
    /\ n_pc["ice"] = "check_sent"
    /\ IF sent_done_or_error
       THEN /\ Goto("ice", "idle")
            /\ n_cand' = "none"
            /\ n_once' = [n_once EXCEPT !["ice"] = NoOnce]
       ELSE /\ Goto("ice", "send_candidate")
            /\ UNCHANGED <<n_cand, n_once>>
    /\ UNCHANGED <<disable_trickle_ice, sent_done_or_error, uuid_lock, is_open,
                   exchange_done, remote_description_set, ice_done, init_received,
                   n_result, n_channel, n_resp, n_reads, n_cands, n_gathered,
                   n_remote_candidates, n_updates>>
    /\ OnlyN

\* lines 818-835: the candidate is converted and sent as a Candidate update,
\* or the conversion fails and is logged
IceSendCandidate ==
    /\ n_pc["ice"] = "send_candidate"
    /\ \E converted \in BOOLEAN :
          n_updates' = IF converted THEN Append(n_updates, n_once["ice"]) ELSE n_updates
    /\ n_once' = [n_once EXCEPT !["ice"] = NoOnce]
    /\ n_cand' = "none"
    /\ Goto("ice", "idle")
    /\ UNCHANGED <<disable_trickle_ice, sent_done_or_error, uuid_lock, is_open,
                   exchange_done, remote_description_set, ice_done, init_received,
                   n_result, n_channel, n_resp, n_reads, n_cands, n_gathered,
                   n_remote_candidates>>
    /\ OnlyN

\* lines 838-839: ice_done.store(true), then send_done_once
IceStoreIceDone ==
    /\ n_pc["ice"] = "store_ice_done"
    /\ ice_done' = TRUE
    /\ n_cand' = "none"
    /\ Goto("ice", "once_load")
    /\ UNCHANGED <<disable_trickle_ice, sent_done_or_error, uuid_lock, is_open,
                   exchange_done, remote_description_set, init_received, n_once,
                   n_result, n_channel, n_resp, n_reads, n_cands, n_gathered,
                   n_remote_candidates, n_updates>>
    /\ OnlyN

\* ---- the response task, lines 863-993 ----

\* lines 870-890: the next item of the Call stream: a response, the end of
\* the stream, or an error or timeout (logged, and the task stops)
TaskRead ==
    /\ n_pc["task"] = "read"
    /\ \/ /\ n_reads < MaxResponses
          /\ \E r \in Responses :
                /\ n_resp' = r
                /\ Goto("task", IF r.stage = "Init" THEN "init"
                                ELSE IF r.stage = "Update" THEN "update" ELSE "read")
          /\ n_reads' = n_reads + 1
          /\ g_late' = (n_channel = "dropped")
       \/ /\ Goto("task", "wait_ice_done")
          /\ g_late' = FALSE
          /\ UNCHANGED <<n_resp, n_reads>>
       \/ /\ Goto("task", "stopped")
          /\ g_late' = FALSE
          /\ UNCHANGED <<n_resp, n_reads>>
    /\ UNCHANGED <<disable_trickle_ice, sent_done_or_error, uuid_lock, is_open,
                   exchange_done, remote_description_set, ice_done, init_received,
                   n_once, n_result, n_channel, n_cand, n_cands, n_gathered,
                   n_remote_candidates, n_updates>>
    /\ OnlyNG

\* lines 877-883: at the end of the stream the task waits, bounded, for
\* ice_done (a timeout is ignored), reads the uuid and calls send_done_once
TaskStreamEnded ==
    /\ n_pc["task"] = "wait_ice_done"
    /\ CallOnce("task", "Done", uuid_lock)
    /\ UNCHANGED <<disable_trickle_ice, sent_done_or_error, uuid_lock, is_open,
                   exchange_done, remote_description_set, ice_done, init_received,
                   n_result, n_channel, n_resp, n_reads, n_cand, n_cands,
                   n_gathered, n_remote_candidates, n_updates>>
    /\ OnlyN

\* line 894: if init_received.load(Acquire)
InitReceivedTwiceNever(received) == FALSE         \* a variant that takes every Init as the first
InitReceivedTwice(received) == received

\* lines 893-904: an Init response: a second one is an error, the first
\* stores the session uuid
TaskInit ==
    /\ n_pc["task"] = "init"
    /\ IF InitReceivedTwice(init_received)
       THEN /\ CallOnce("task", "Error", uuid_lock)
            /\ n_resp' = NoResp
            /\ UNCHANGED <<init_received, uuid_lock>>
       ELSE /\ init_received' = TRUE
            /\ uuid_lock' = n_resp.uuid
            /\ Goto("task", "set_remote")
            /\ UNCHANGED <<n_once, n_resp>>
    /\ UNCHANGED <<disable_trickle_ice, sent_done_or_error, is_open,
                   exchange_done, remote_description_set, ice_done, n_result,
                   n_channel, n_reads, n_cand, n_cands, n_gathered,
                   n_remote_candidates, n_updates>>
    /\ OnlyN

\* lines 906-942: the answer is decoded (an undecodable one is an error), the
\* client channel upgraded (the task stops if it is gone) and the remote
\* description set (its failure is an error)
TaskSetRemote ==
    /\ n_pc["task"] = "set_remote"
    /\ IF ~n_resp.ok
       THEN CallOnce("task", "Error", n_resp.uuid) /\ n_resp' = NoResp
       ELSE IF n_channel # "alive"
            THEN Goto("task", "stopped") /\ n_resp' = NoResp /\ UNCHANGED n_once
            ELSE \/ Goto("task", "store_rds") /\ UNCHANGED <<n_once, n_resp>>
                 \/ CallOnce("task", "Error", n_resp.uuid) /\ n_resp' = NoResp
    /\ UNCHANGED <<disable_trickle_ice, sent_done_or_error, uuid_lock, is_open,
                   exchange_done, remote_description_set, ice_done, init_received,
                   n_result, n_channel, n_reads, n_cand, n_cands, n_gathered,
                   n_remote_candidates, n_updates>>
    /\ OnlyN

\* line 944: if webrtc_options.disable_trickle_ice
DoneAfterInitNever(disable_trickle) == FALSE     \* a variant that reads on after the answer
DoneAfterInit(disable_trickle) == disable_trickle

\* lines 943-947: remote_description_set.store(true); without trickle ICE
\* the task then calls send_done_once and stops
TaskStoreRemoteSet ==
    /\ n_pc["task"] = "store_rds"
    /\ remote_description_set' = TRUE
    /\ IF DoneAfterInit(disable_trickle_ice)
       THEN CallOnce("task", "Done", n_resp.uuid)
       ELSE Goto("task", "read") /\ UNCHANGED n_once
    /\ n_resp' = NoResp
    /\ UNCHANGED <<disable_trickle_ice, sent_done_or_error, uuid_lock, is_open,
                   exchange_done, ice_done, init_received, n_result, n_channel,
                   n_reads, n_cand, n_cands, n_gathered, n_remote_candidates,
                   n_updates>>
    /\ OnlyN

\* lines 950-989: an Update response: before any Init, or with another uuid,
\* it is an error; an unparsable candidate is logged; the candidate is added
\* to the peer connection (its failure is an error; the task stops if the
\* client channel is gone)
TaskUpdate ==
    /\ n_pc["task"] = "update"
    /\ n_resp' = NoResp
    /\ IF ~init_received \/ n_resp.uuid # uuid_lock
       THEN CallOnce("task", "Error", uuid_lock) /\ UNCHANGED n_remote_candidates
       ELSE IF ~n_resp.ok
            THEN Goto("task", "read") /\ UNCHANGED <<n_once, n_remote_candidates>>
            ELSE IF n_channel # "alive"
                 THEN Goto("task", "stopped") /\ UNCHANGED <<n_once, n_remote_candidates>>
                 ELSE \/ /\ Goto("task", "read")
                         /\ n_remote_candidates' = n_remote_candidates + 1
                         /\ UNCHANGED n_once
                      \/ /\ CallOnce("task", "Error", uuid_lock)
                         /\ UNCHANGED n_remote_candidates
    /\ UNCHANGED <<disable_trickle_ice, sent_done_or_error, uuid_lock, is_open,
                   exchange_done, remote_description_set, ice_done, init_received,
                   n_result, n_channel, n_reads, n_cand, n_cands, n_gathered,
                   n_updates>>
    /\ OnlyN

NInit ==
    /\ disable_trickle_ice \in BOOLEAN
    /\ sent_done_or_error = FALSE
    /\ uuid_lock = ""
    /\ is_open = FALSE
    /\ exchange_done = FALSE
    /\ remote_description_set = FALSE
    /\ ice_done = FALSE
    /\ init_received = FALSE
    /\ n_pc = [p \in {"main", "task", "ice"} |->
                  IF p = "main" THEN "config" ELSE IF p = "task" THEN "unspawned" ELSE "idle"]
    /\ n_once = [p \in {"main", "task", "ice"} |-> NoOnce]
    /\ n_result = "none"
    /\ n_channel = "none"
    /\ n_resp = NoResp
    /\ n_reads = 0
    /\ n_cand = "none"
    /\ n_cands = 0
    /\ n_gathered = "off"
    /\ n_remote_candidates = 0
    /\ n_updates = <<>>

\* the negotiation has not begun
NIdle == NInit /\ disable_trickle_ice = FALSE

----------------------------------------------------------------------------
(* DialBuilder::connect and connect_inner, dial.rs:386-682.  The builder's *)
(* options are fixed when connect is called; mDNS discovery, the direct    *)
(* transport, the auth exchange and the WebRTC negotiation follow in the   *)
(* order of the code.                                                      *)

Schemes == {"http", "https"}

\* lines 472-474, 585-587: insecure replaces the scheme of the primary URI
PrimaryScheme(opts) == IF opts.insecure THEN "http" ELSE "https"

\* lines 386-389: with disable_mdns, get_mdns_uri returns before any query
DiscoveryRuns(opts) == ~opts.disable_mdns

\* What get_mdns_uri under its 5-second deadline (lines 548-551, 677-680) can
\* come to: no responder ("absent"), the deadline passing ("timeout"), an
\* address that does not make a URI (lines 421, 481: "unusable"), or a usable
\* address ("found").
DiscoveryOutcomes == {"absent", "timeout", "unusable", "found"}

\* lines 548-551 and 481: only a found, usable address is Some(uri)
MdnsUriOf(outcome) == IF outcome = "found" THEN "some" ELSE "none"

\* line 446: the retry of create_channel
RetriesAlways(allow_downgrade) == TRUE           \* a variant that retries without allow_downgrade
Retries(allow_downgrade) == allow_downgrade

\* lines 428-457: create_channel.  Each connection attempted is recorded with
\* its target, scheme and result; the retry (lines 446-450) is made with the
\* scheme HTTP on the same uri.  For mDNS the TLS configuration (lines
\* 435-438) can fail before any connection is attempted.
CreateChannel(allow_downgrade, target, scheme, for_mdns) ==
    LET first(ok) == [target |-> target, scheme |-> scheme, ok |-> ok]
        retry(ok) == [target |-> target, scheme |-> "http", ok |-> ok]
    IN  {[attempts |-> <<first(TRUE)>>, ok |-> TRUE]}
        \cup (IF for_mdns THEN {[attempts |-> <<>>, ok |-> FALSE]} ELSE {})
        \cup (IF Retries(allow_downgrade)
              THEN {[attempts |-> <<first(FALSE), retry(k)>>, ok |-> k] : k \in BOOLEAN}
              ELSE {[attempts |-> <<first(FALSE)>>, ok |-> FALSE]})

\* lines 498-512, 609-622: what follows the mDNS attempt
AfterMdnsFailureReturns == "returned"            \* a variant in which a failed mDNS attempt ends connect
AfterMdnsFailure == "primary"

\* lines 526, 648: if disable_webrtc
WebRTCNeverDisabled(opts) == FALSE               \* a variant that ignores disable_webrtc
WebRTCDisabled(opts) == opts.disable_webrtc

\* lines 624-638: get_auth_token(...).await?
AfterAuthAlwaysOn(ok) == "webrtc"                \* a variant that goes on after a failed Authenticate
AfterAuth(ok) == IF ok THEN "webrtc" ELSE "returned"

\* lines 529-535, 651-659: the match on maybe_connect_via_webrtc's result
ViamChannelOfFatal(result) == IF result = "Ok" THEN "WebRTC" ELSE "Err"  \* a variant that returns the error
ViamChannelOf(result) == IF result = "Ok" THEN "WebRTC" ELSE "Direct"

\* the negotiation state connect's own steps leave alone
NegotiationUntouched ==
    UNCHANGED <<disable_trickle_ice, sent_done_or_error, uuid_lock, is_open,
                exchange_done, remote_description_set, ice_done, init_received,
                n_once, n_result, n_channel, n_resp, n_reads, n_cand, n_cands,
                n_gathered, n_remote_candidates, n_updates>>

\* lines 410-419: what get_mdns_uri logs for each outcome of discovery; the
\* deadline of line 548 can pass before anything is logged
MdnsLogOf(outcome) ==
    IF outcome = "absent" THEN <<"Unable to connect via mDNS">>
    ELSE IF outcome \in {"unusable", "found"} THEN <<"Found address via mDNS: {addr}">>
    ELSE <<>>

\* lines 483-487 and 598-602: the line logged before the transport is opened
AttemptLogOf(attempting_mdns) ==
    IF attempting_mdns THEN "Attempting to connect via mDNS" ELSE "Attempting to connect"

\* lines 498-508 and 609-619: the line logged for the mDNS attempt's result
MdnsResultLogOf(ok) ==
    IF ok THEN "Connected via mDNS"
    ELSE "Unable to connect via mDNS; falling back to robot URI. Error: {e}"

\* lines 532 and 654-656: the line logged when the negotiation failed
WebRTCErrorLogOf(creds) ==
    IF creds
    THEN "Unable to establish webrtc connection due to error: [{e}]. Attempting direct connection."
    ELSE "error connecting via webrtc: {e}. Attempting to connect directly"

\* lines 539-552, 668-682: connect.  Without a uri it fails at once (lines
\* 540-547); otherwise discovery runs, unless disabled, and connect_inner is
\* entered with its result.
Connect ==
    /\ c_pc = "start"
    /\ \E has_uri \in BOOLEAN :
          IF ~has_uri
          THEN /\ c_pc' = "returned"
               /\ c_result' = "Err"
               /\ UNCHANGED <<c_discovery, c_mdns_uri, c_log>>
          ELSE /\ c_pc' = "mdns"
               /\ c_result' = c_result
               /\ IF DiscoveryRuns(c_opts)
                  THEN \E outcome \in DiscoveryOutcomes :
                          /\ c_discovery' = outcome
                          /\ c_mdns_uri' = MdnsUriOf(outcome)
                          /\ c_log' = c_log \o MdnsLogOf(outcome)
                  ELSE /\ c_discovery' = "not_run"
                       /\ c_mdns_uri' = "none"
                       /\ UNCHANGED c_log
    /\ UNCHANGED <<c_opts, c_attempts, c_channel, c_auth, n_pc>>
    /\ NegotiationUntouched
    /\ OnlyC

\* lines 481-496, 594-608: with an mDNS uri, the transport is first opened to
\* the discovered address (scheme HTTP, line 423; TLS domain of the primary
\* authority)
OpenMdns ==
    /\ c_pc = "mdns"
    /\ IF c_mdns_uri = "some"
       THEN \E o \in CreateChannel(c_opts.allow_downgrade, "mdns", "http", TRUE) :
               /\ c_attempts' = c_attempts \o o.attempts
               /\ c_channel' = IF o.ok THEN "mdns" ELSE c_channel
               /\ c_pc' = IF o.ok THEN (IF c_opts.creds THEN "auth" ELSE "webrtc")
                          ELSE AfterMdnsFailure
               /\ c_result' = IF ~o.ok /\ AfterMdnsFailure = "returned" THEN "Err" ELSE c_result
               /\ c_log' = c_log \o <<AttemptLogOf(TRUE), MdnsResultLogOf(o.ok)>>
       ELSE /\ c_pc' = "primary"
            /\ c_log' = Append(c_log, AttemptLogOf(FALSE))
            /\ UNCHANGED <<c_attempts, c_channel, c_result>>
    /\ UNCHANGED <<c_opts, c_discovery, c_mdns_uri, c_auth, n_pc>>
    /\ NegotiationUntouched
    /\ OnlyC

\* lines 503-511, 614-621: the transport is opened to the primary URI; its
\* failure is the failure of connect
OpenPrimary ==
    /\ c_pc = "primary"
    /\ \E o \in CreateChannel(c_opts.allow_downgrade, "primary", PrimaryScheme(c_opts), FALSE) :
          /\ c_attempts' = c_attempts \o o.attempts
          /\ c_channel' = IF o.ok THEN "primary" ELSE c_channel
          /\ c_pc' = IF o.ok THEN (IF c_opts.creds THEN "auth" ELSE "webrtc") ELSE "returned"
          /\ c_result' = IF o.ok THEN c_result ELSE "Err"
    /\ UNCHANGED <<c_opts, c_discovery, c_mdns_uri, c_auth, c_log, n_pc>>
    /\ NegotiationUntouched
    /\ OnlyC

\* lines 556-569 and 624-638: with credentials, Authenticate is called on
\* the opened transport
GetAuthToken ==
    /\ c_pc = "auth"
    /\ \E ok \in BOOLEAN :
          /\ c_auth' = IF ok THEN "ok" ELSE "failed"
          /\ c_pc' = AfterAuth(ok)
          /\ c_result' = IF AfterAuth(ok) = "returned" THEN "Err" ELSE c_result
    /\ UNCHANGED <<c_opts, c_discovery, c_mdns_uri, c_attempts, c_channel, c_log, n_pc>>
    /\ NegotiationUntouched
    /\ OnlyC

\* lines 526-529, 648-651: Direct at once when WebRTC is disabled; otherwise
\* maybe_connect_via_webrtc is called
DirectOrWebRTC ==
    /\ c_pc = "webrtc"
    /\ IF WebRTCDisabled(c_opts)
       THEN /\ c_pc' = "returned"
            /\ c_result' = "Direct"
            /\ UNCHANGED n_pc
       ELSE /\ c_pc' = "negotiating"
            /\ Goto("main", "config")
            /\ UNCHANGED c_result
    /\ UNCHANGED <<c_opts, c_discovery, c_mdns_uri, c_attempts, c_channel, c_auth, c_log>>
    /\ NegotiationUntouched
    /\ OnlyC

\* lines 530-535, 652-664: maybe_connect_via_webrtc has returned
ConnectReturns ==
    /\ c_pc = "negotiating"
    /\ n_pc["main"] = "returned"
    /\ c_pc' = "returned"
    /\ c_result' = ViamChannelOf(n_result)
    /\ c_log' = IF n_result = "Ok" THEN c_log ELSE Append(c_log, WebRTCErrorLogOf(c_opts.creds))
    /\ UNCHANGED <<c_opts, c_discovery, c_mdns_uri, c_attempts, c_channel, c_auth, n_pc>>
    /\ NegotiationUntouched
    /\ OnlyC

\* the builder's options as connect finds them (lines 184-191, 285-309)
DialOptions ==
    [creds : BOOLEAN, disable_webrtc : BOOLEAN, disable_mdns : BOOLEAN,
     allow_downgrade : BOOLEAN, insecure : BOOLEAN]

\* connect has not been called
CIdle ==
    /\ c_opts = [creds |-> FALSE, disable_webrtc |-> FALSE, disable_mdns |-> FALSE,
                 allow_downgrade |-> FALSE, insecure |-> FALSE]
    /\ c_pc = "idle"
    /\ c_discovery = "none"
    /\ c_mdns_uri = "none"
    /\ c_attempts = <<>>
    /\ c_channel = "none"
    /\ c_auth = "none"
    /\ c_result = "none"
    /\ c_log = <<>>

\* connect is called with the options opts
CInit(opts) ==
    /\ c_opts = opts
    /\ c_pc = "start"
    /\ c_discovery = "none"
    /\ c_mdns_uri = "none"
    /\ c_attempts = <<>>
    /\ c_channel = "none"
    /\ c_auth = "none"
    /\ c_result = "none"
    /\ c_log = <<>>

\* maybe_connect_via_webrtc has not been called
NNotCalled ==
    /\ disable_trickle_ice \in BOOLEAN
    /\ sent_done_or_error = FALSE
    /\ uuid_lock = ""
    /\ is_open = FALSE
    /\ exchange_done = FALSE
    /\ remote_description_set = FALSE
    /\ ice_done = FALSE
    /\ init_received = FALSE
    /\ n_pc = [p \in {"main", "task", "ice"} |->
                  IF p = "main" THEN "uncalled" ELSE IF p = "task" THEN "unspawned" ELSE "idle"]
    /\ n_once = [p \in {"main", "task", "ice"} |-> NoOnce]
    /\ n_result = "none"
    /\ n_channel = "none"
    /\ n_resp = NoResp
    /\ n_reads = 0
    /\ n_cand = "none"
    /\ n_cands = 0
    /\ n_gathered = "off"
    /\ n_remote_candidates = 0
    /\ n_updates = <<>>

----------------------------------------------------------------------------
(* Inbound dispatch: the data channel's on_message callback and            *)
(* on_channel_message, client_channel.rs:82-99 and 130-164.  The client    *)
(* stream's on_response is not part of this repository's src/rpc; it is     *)
(* written here as section 4.4 of the design describes it.                  *)

\* The stream ids inbound frames may carry: the ids the channel has handed
\* out and one it has not.
StreamIds == 0..MaxOpenStreams

\* Packet data of an inbound Message frame.
InboundData == {<<>>, <<7>>}

\* The Response messages a datagram may decode to (lines 131-132): a Headers,
\* Message or Trailers frame, with or without a stream.
InboundFrames ==
    {[type |-> t, has_stream |-> h, stream |-> s, eom |-> FALSE, eos |-> FALSE, data |-> <<>>] :
        t \in {"Headers", "Trailers"}, h \in BOOLEAN, s \in StreamIds}
    \cup {[type |-> "Message", has_stream |-> h, stream |-> s, eom |-> m, eos |-> e, data |-> d] :
            h \in BOOLEAN, s \in StreamIds, m \in BOOLEAN, e \in BOOLEAN, d \in InboundData}

\* A datagram that does not decode (line 131: Response::decode(...)?).
Undecodable == [type |-> "undecodable", has_stream |-> FALSE, stream |-> 0, eom |-> FALSE, eos |-> FALSE, data |-> <<>>]

\* line 142: self.streams.get_mut(&stream.id)
StreamFoundNever(table, id) == FALSE             \* a variant whose lookup never finds the stream
StreamFound(table, id) == id \in table

\* line 153: matches!(response.type, Some(RespType::Trailers(_)))
ShouldDropStreamAlways(type) == TRUE             \* a variant that drops the stream after every frame
ShouldDropStreamNever(type) == FALSE             \* a variant that never drops the stream
ShouldDropStream(type) == type = "Trailers"

\* line 161: self.streams.remove(&stream_id)
DropAllStreams(table, id) == {}                  \* a variant that empties the table
DropStream(table, id) == table \ {id}

\* Section 4.4, Headers: a second Headers frame is a protocol error.
HeadersProtocolError(received) == received

\* Section 4.4, Message: a Message frame before any Headers frame is a
\* protocol error.
MessageProtocolError(received) == ~received

\* What a protocol error leaves of a stream: it is closed with the error and
\* the synthetic status unknown goes to the body sink, which is closed.
CloseWithProtocolError(st) ==
    [st EXCEPT !.closed = "protocol error",
               !.sink = IF st.closed = "no" THEN Append(st.sink, [kind |-> "status", value |-> "unknown"])
                        ELSE st.sink]

\* Section 4.4: the client stream's handling of one frame.  It gives the
\* stream's new state and whether an error is returned.  A stream already
\* closed delivers nothing more.
OnResponse(st, f) ==
    IF st.closed # "no"
    THEN [stream |-> st, err |-> TRUE]
    ELSE IF f.type = "Headers"
    THEN IF HeadersProtocolError(st.headers_received)
         THEN [stream |-> CloseWithProtocolError(st), err |-> TRUE]
         ELSE [stream |-> [st EXCEPT !.headers_received = TRUE], err |-> FALSE]
    ELSE IF f.type = "Message"
    THEN IF MessageProtocolError(st.headers_received)
         THEN [stream |-> CloseWithProtocolError(st), err |-> TRUE]
         ELSE LET buf == st.packet_buffer \o f.data
              IN  [stream |->
                      IF f.eom
                      THEN [st EXCEPT !.packet_buffer = <<>>,
                                      !.sink = Append(st.sink,
                                                  [kind |-> "frame",
                                                   value |-> GrpcHeader(0, Len(buf)) \o buf])]
                      ELSE [st EXCEPT !.packet_buffer = buf],
                   err |-> FALSE]
    ELSE [stream |-> [st EXCEPT !.trailers_received = TRUE,
                                !.closed = "trailers",
                                !.sink = Append(st.sink, [kind |-> "status", value |-> "trailers"])],
          err |-> FALSE]

\* A stream as new_stream makes it (lines 111-123).
NewClientStream ==
    [headers_received |-> FALSE, trailers_received |-> FALSE, closed |-> "no",
     packet_buffer |-> <<>>, sink |-> <<>>]

\* lines 82-99 and 130-164: one inbound datagram, from the callback's call of
\* on_channel_message to its write of the channel's error slot.
OnChannelMessage(f) ==
    /\ i_count < MaxInbound
    /\ i_count' = i_count + 1
    /\ i_last' = f
    /\ IF f.type = "undecodable"
       THEN /\ i_error' = "Some"
            /\ UNCHANGED <<i_streams, streams>>
       ELSE IF ~f.has_stream
       THEN /\ i_error' = "None"
            /\ UNCHANGED <<i_streams, streams>>
       ELSE /\ IF StreamFound(streams, f.stream)
               THEN LET r == OnResponse(i_streams[f.stream], f)
                    IN  /\ i_streams' = [i_streams EXCEPT ![f.stream] = r.stream]
                        /\ i_error' = IF r.err THEN "Some" ELSE "None"
               ELSE /\ i_error' = "Some"
                    /\ UNCHANGED i_streams
            /\ streams' = IF ShouldDropStream(f.type)
                          THEN DropStream(streams, f.stream)
                          ELSE streams
    /\ UNCHANGED <<stream_id_counter, receiver_bodies, s_pc, s_id, s_allocated>>
    /\ OnlyI

\* a datagram arrives that decodes to a frame, or does not decode
OnMessage == \E f \in InboundFrames \cup {Undecodable} : OnChannelMessage(f)

\* no datagram has arrived
IIdle ==
    /\ i_streams = [s \in StreamIds |-> NewClientStream]
    /\ i_error = "None"
    /\ i_count = 0
    /\ i_last = Undecodable

\* The channel after MaxOpenStreams calls of new_stream have returned: their
\* ids are in the stream table, each with its pending response body.
SAllocated ==
    /\ stream_id_counter = MaxOpenStreams
    /\ streams = 0..(MaxOpenStreams - 1)
    /\ receiver_bodies = 0..(MaxOpenStreams - 1)
    /\ s_pc = [c \in Callers |-> "idle"]
    /\ s_id = [c \in Callers |-> 0]
    /\ s_allocated = [i \in 1..MaxOpenStreams |-> i - 1]

----------------------------------------------------------------------------
(* Sending on a closed channel, and reading the terminal-error slot.       *)

\* lines 174-185 and 278-286: write_headers encodes one Headers frame and
\* send hands it to the data channel, whatever the base channel's closed
\* flag says
WriteHeaders ==
    /\ h_sent < MaxHeaders
    /\ DataChannelOpen
    /\ h_sent' = h_sent + 1
    /\ UNCHANGED b_read
    /\ OnlyO

\* base_channel.rs:143-145 and 83, 95-96: closed_reason() hands out the raw
\* pointer the AtomicPtr holds.  It points at a temporary of new_ (line 83)
\* or at the local `err` of the on_error callback's future (lines 95-96),
\* both gone when a reader dereferences it: the read gives what the slot was
\* given, or whatever has since taken that memory.
ReadClosedReason ==
    /\ b_read.seen = "unread"
    /\ \E seen \in {closed_reason, "garbage"} :
          b_read' = [held |-> closed_reason, after_close |-> closed, seen |-> seen]
    /\ UNCHANGED h_sent
    /\ OnlyO

OIdle ==
    /\ h_sent = 0
    /\ b_read = [held |-> "none", after_close |-> FALSE, seen |-> "unread"]

----------------------------------------------------------------------------
(* ViamChannel::call for the WebRTC variant and create_resp, dial.rs:84-179, *)
(* with new_stream (client_channel.rs:106-128) on the id counter at its     *)
(* full width.                                                              *)

\* dial.rs:53-55
STATUS_CODE_OK == 0
STATUS_CODE_UNKNOWN == 2
STATUS_CODE_RESOURCE_EXHAUSTED == 8

\* An AtomicU64 as four 16-bit limbs, most significant first.
LimbMax == 65535
U64Zero == <<0, 0, 0, 0>>
U64Max == <<LimbMax, LimbMax, LimbMax, LimbMax>>

\* client_channel.rs:107: fetch_add(1) on an AtomicU64 wraps around on
\* overflow
FetchAdd64(x) ==
    IF x[4] < LimbMax THEN <<x[1], x[2], x[3], x[4] + 1>>
    ELSE IF x[3] < LimbMax THEN <<x[1], x[2], x[3] + 1, 0>>
    ELSE IF x[2] < LimbMax THEN <<x[1], x[2] + 1, 0, 0>>
    ELSE IF x[1] < LimbMax THEN <<x[1] + 1, 0, 0, 0>>
    ELSE U64Zero

\* client_channel.rs:106-128: new_stream returns a Stream on every call; it
\* has no failing path, whatever the counter and the table hold
NewStreamFails(counter, table) == FALSE

\* dial.rs:150-174 and client_channel.rs:106-128: call builds the response
\* head and allocates a stream; the Err arm answers with grpc-status 8 and
\* an empty body, the Ok arm goes on to create_resp
CallNewStream ==
    /\ k_pc = "idle"
    /\ k_calls < MaxCalls
    /\ k_calls' = k_calls + 1
    /\ k_exhausted' = k_wrapped
    /\ k_frames' = <<>>
    /\ k_status_code' = STATUS_CODE_OK
    /\ IF NewStreamFails(k_counter, k_streams)
       THEN /\ k_response' = [grpc_status |-> <<STATUS_CODE_RESOURCE_EXHAUSTED>>, body |-> "empty"]
            /\ k_pc' = "done"
            /\ UNCHANGED <<k_counter, k_wrapped, k_streams, k_bodies, k_id>>
       ELSE /\ k_id' = k_counter
            /\ k_counter' = FetchAdd64(k_counter)
            /\ k_wrapped' = (k_wrapped \/ k_counter = U64Max)
            /\ k_streams' = k_streams \cup {k_counter}
            /\ k_bodies' = k_bodies \cup {k_counter}
            /\ k_response' = [grpc_status |-> <<>>, body |-> "none"]
            /\ k_pc' = "headers"
    /\ OnlyK

\* dial.rs:105-109: write_headers; on its error the stream is closed and the
\* status becomes unknown
CallWriteHeaders ==
    /\ k_pc = "headers"
    /\ \E ok \in BOOLEAN :
          /\ k_frames' = IF ok THEN Append(k_frames, "Headers") ELSE k_frames
          /\ k_status_code' = IF ok THEN k_status_code ELSE STATUS_CODE_UNKNOWN
          /\ k_streams' = IF ok THEN k_streams ELSE k_streams \ {k_id}
    /\ k_pc' = "message"
    /\ UNCHANGED <<k_counter, k_wrapped, k_bodies, k_id, k_exhausted, k_response, k_calls>>
    /\ OnlyK

\* dial.rs:111-116: the request body is read and write_message called
CallWriteMessage ==
    /\ k_pc = "message"
    /\ \E ok \in BOOLEAN :
          /\ k_frames' = IF ok THEN Append(k_frames, "Message") ELSE k_frames
          /\ k_status_code' = IF ok THEN k_status_code ELSE STATUS_CODE_UNKNOWN
          /\ k_streams' = IF ok THEN k_streams ELSE k_streams \ {k_id}
    /\ k_pc' = "body"
    /\ UNCHANGED <<k_counter, k_wrapped, k_bodies, k_id, k_exhausted, k_response, k_calls>>
    /\ OnlyK

\* dial.rs:118-134: the pending body is taken for the response; a status
\* other than OK goes into the grpc-status header
CallResponse ==
    /\ k_pc = "body"
    /\ LET found == k_id \in k_bodies
           code == IF found THEN k_status_code ELSE STATUS_CODE_UNKNOWN
       IN  /\ k_bodies' = k_bodies \ {k_id}
           /\ k_streams' = IF found THEN k_streams ELSE k_streams \ {k_id}
           /\ k_status_code' = code
           /\ k_response' = [grpc_status |-> IF code # STATUS_CODE_OK THEN <<code>> ELSE <<>>,
                             body |-> IF found THEN "pending" ELSE "empty"]
    /\ k_pc' = "done"
    /\ UNCHANGED <<k_counter, k_wrapped, k_id, k_exhausted, k_frames, k_calls>>
    /\ OnlyK

\* the future of call has resolved; the channel takes the next request
CallReturns ==
    /\ k_pc = "done"
    /\ k_pc' = "idle"
    /\ UNCHANGED <<k_counter, k_wrapped, k_streams, k_bodies, k_id, k_exhausted,
                   k_status_code, k_frames, k_response, k_calls>>
    /\ OnlyK

\* a channel whose id counter is at c, with no call made
KInit(c) ==
    /\ k_counter = c
    /\ k_wrapped = FALSE
    /\ k_streams = {}
    /\ k_bodies = {}
    /\ k_pc = "idle"
    /\ k_id = U64Zero
    /\ k_exhausted = FALSE
    /\ k_status_code = STATUS_CODE_OK
    /\ k_frames = <<>>
    /\ k_response = [grpc_status |-> <<>>, body |-> "none"]
    /\ k_calls = 0

KIdle == KInit(U64Zero)

----------------------------------------------------------------------------
(* Concurrent calls on one WebRTC channel: each is a future of its own     *)
(* (dial.rs:154-176) that allocates a stream and runs create_resp; the     *)
(* frames they send meet in the data channel, which keeps their order.     *)

Calls == 1..MaxConcurrentCalls

\* dial.rs:105-118: create_resp awaits write_headers, then write_message,
\* then takes the response body
CreateRespStepsMessageFirst == <<"message", "headers", "body">>  \* a variant that sends the message first
CreateRespSteps == <<"headers", "message", "body">>

QStepOf(c) ==
    IF q_step[c] \in 1..Len(CreateRespSteps) THEN CreateRespSteps[q_step[c]]
    ELSE IF q_step[c] = 0 THEN "idle" ELSE "returned"

\* dial.rs:161-174 and client_channel.rs:106-128: the call allocates its
\* stream; its request body holds MaxPackets packets' worth of data
QNewStream(c) ==
    /\ q_step[c] = 0
    /\ q_step' = [q_step EXCEPT ![c] = 1]
    /\ q_id' = [q_id EXCEPT ![c] = stream_id_counter]
    /\ stream_id_counter' = FetchAdd(stream_id_counter)
    /\ streams' = streams \cup {stream_id_counter}
    /\ receiver_bodies' = receiver_bodies \cup {stream_id_counter}
    /\ q_packets' = [q_packets EXCEPT ![c] = MaxPackets]
    /\ UNCHANGED <<s_pc, s_id, s_allocated, q_sent, q_headers, q_out>>
    /\ OnlyQ

\* dial.rs:105-109 and client_channel.rs:174-185: write_headers sends one
\* Headers frame; if the send fails the stream is closed and taken from the
\* table, and create_resp goes on
QWriteHeaders(c) ==
    /\ QStepOf(c) = "headers"
    /\ \E ok \in BOOLEAN :
          /\ ok => Len(q_out) < MaxOutbound
          /\ q_out' = IF ok THEN Append(q_out, [stream |-> q_id[c], type |-> "Headers", seq |-> 0])
                      ELSE q_out
          /\ q_headers' = [q_headers EXCEPT ![c] = IF ok THEN "sent" ELSE "failed"]
          /\ streams' = IF ok THEN streams ELSE streams \ {q_id[c]}
    /\ q_step' = [q_step EXCEPT ![c] = q_step[c] + 1]
    /\ UNCHANGED <<stream_id_counter, receiver_bodies, s_pc, s_id, s_allocated,
                   q_id, q_packets, q_sent>>
    /\ OnlyQ

\* client_channel.rs:235-273: one pass of write_message's inner loop: the
\* next packet of the call is sent as a Message frame
QSendPacket(c) ==
    /\ QStepOf(c) = "message"
    /\ q_sent[c] < q_packets[c]
    /\ Len(q_out) < MaxOutbound
    /\ q_out' = Append(q_out, [stream |-> q_id[c], type |-> "Message", seq |-> q_sent[c] + 1])
    /\ q_sent' = [q_sent EXCEPT ![c] = q_sent[c] + 1]
    /\ q_step' = [q_step EXCEPT ![c] =
                     IF q_sent[c] + 1 = q_packets[c] THEN q_step[c] + 1 ELSE q_step[c]]
    /\ UNCHANGED <<svars, q_id, q_packets, q_headers>>
    /\ OnlyQ

\* client_channel.rs:261-264 and dial.rs:112-116: a send of write_message
\* fails; the call returns the error and create_resp closes the stream
QSendFails(c) ==
    /\ QStepOf(c) = "message"
    /\ q_sent[c] < q_packets[c]
    /\ streams' = streams \ {q_id[c]}
    /\ q_step' = [q_step EXCEPT ![c] = q_step[c] + 1]
    /\ UNCHANGED <<stream_id_counter, receiver_bodies, s_pc, s_id, s_allocated,
                   q_id, q_packets, q_sent, q_headers, q_out>>
    /\ OnlyQ

\* dial.rs:118-134: the response body is taken and the response returned
QResponse(c) ==
    /\ QStepOf(c) = "body"
    /\ receiver_bodies' = receiver_bodies \ {q_id[c]}
    /\ q_step' = [q_step EXCEPT ![c] = q_step[c] + 1]
    /\ UNCHANGED <<stream_id_counter, streams, s_pc, s_id, s_allocated,
                   q_id, q_packets, q_sent, q_headers, q_out>>
    /\ OnlyQ

\* no call has been made
QIdle ==
    /\ q_step = [c \in Calls |-> 0]
    /\ q_id = [c \in Calls |-> 0]
    /\ q_packets = [c \in Calls |-> 0]
    /\ q_sent = [c \in Calls |-> 0]
    /\ q_headers = [c \in Calls |-> "none"]
    /\ q_out = <<>>

----------------------------------------------------------------------------
(* The log prefixes, log_prefixes.rs:5-18, and dialdbg's parser of the     *)
(* direct-dial log, dialdbg/src/parse.rs:181-248.                          *)

MDNS_QUERY_ATTEMPT == "Starting mDNS query"
MDNS_ADDRESS_FOUND == "Found address via mDNS"
ACQUIRING_AUTH_TOKEN == "Acquiring auth token"
ACQUIRED_AUTH_TOKEN == "Acquired auth token"
DIAL_ATTEMPT == "Dialing"
DIALED_GRPC == "Connected via gRPC"
DIALED_WEBRTC == "Connected via WebRTC"

\* parse.rs:10: the prefix dialdbg itself prepends to a connect error
DIAL_ERROR_PREFIX == "unexpected dial connect error"

\* log.contains(prefix), for the lines dial.rs emits: of the prefixes above
\* only MDNS_ADDRESS_FOUND occurs in one of them (dial.rs:416)
Contains(line, prefix) ==
    \/ line = prefix
    \/ line = "Found address via mDNS: {addr}" /\ prefix = MDNS_ADDRESS_FOUND

\* parse.rs:185-189: the result and the three start timestamps before any
\* line is read
ParseStart ==
    [ok |-> TRUE, connection |-> FALSE, authentication |-> FALSE, mdns_query |-> FALSE,
     connection_establishment_start |-> FALSE, authentication_start |-> FALSE,
     mdns_query_start |-> FALSE]

\* parse.rs:196-244: one line of the log.  A completion prefix without its
\* start prefix before it is an error (bail!); with it, the duration is set.
ParseLine(st, line) ==
    IF Contains(line, DIAL_ERROR_PREFIX) THEN st
    ELSE IF Contains(line, MDNS_QUERY_ATTEMPT) THEN [st EXCEPT !.mdns_query_start = TRUE]
    ELSE IF Contains(line, MDNS_ADDRESS_FOUND)
         THEN IF st.mdns_query_start THEN [st EXCEPT !.mdns_query = TRUE]
              ELSE [st EXCEPT !.ok = FALSE]
    ELSE IF Contains(line, ACQUIRING_AUTH_TOKEN) THEN [st EXCEPT !.authentication_start = TRUE]
    ELSE IF Contains(line, ACQUIRED_AUTH_TOKEN)
         THEN IF st.authentication_start THEN [st EXCEPT !.authentication = TRUE]
              ELSE [st EXCEPT !.ok = FALSE]
    ELSE IF Contains(line, DIAL_ATTEMPT)
         THEN [st EXCEPT !.connection_establishment_start = TRUE]
    ELSE IF Contains(line, DIALED_GRPC)
         THEN IF st.connection_establishment_start THEN [st EXCEPT !.connection = TRUE]
              ELSE [st EXCEPT !.ok = FALSE]
    ELSE st

\* parse.rs:190-247: the lines are read in order; the first error ends the
\* parse
RECURSIVE ParseFrom(_, _, _)
ParseFrom(log, i, st) ==
    IF i > Len(log) \/ ~st.ok THEN st
    ELSE ParseFrom(log, i + 1, ParseLine(st, log[i]))

parse_grpc_logs(log) == ParseFrom(log, 1, ParseStart)

----------------------------------------------------------------------------
(* The specifications: each follows one part of the program and leaves the *)
(* others in their initial state.                                          *)

NoWrite == w_in = [flag |-> 0, lens |-> <<0>>, cut |-> 0, pad |-> 0] /\ WIdle

InitWrite == WInit /\ SInit /\ BInit /\ NIdle /\ CIdle /\ IIdle /\ OIdle /\ KIdle /\ GIdle /\ QIdle
NextWrite ==
    \/ CreateRespWriteMessage
    \/ WriteMessage
    \/ OuterLoop
    \/ InnerSend
    \/ InnerSendFails
SpecWrite == InitWrite /\ [][NextWrite]_vars

InitStream == NoWrite /\ SInit /\ BInit /\ NIdle /\ CIdle /\ IIdle /\ OIdle /\ KIdle /\ GIdle /\ QIdle
NextStream ==
    \E c \in Callers :
        \/ NewStreamFetchAdd(c)
        \/ NewStreamInsertStream(c)
        \/ NewStreamInsertBody(c)
SpecStream == InitStream /\ [][NextStream]_vars

InitClose == NoWrite /\ SInit /\ BInit /\ NIdle /\ CIdle /\ IIdle /\ OIdle /\ KIdle /\ GIdle /\ QIdle
NextClose ==
    \/ \E p \in Closers : CloseCall(p) \/ CloseLoad(p) \/ CloseStore(p) \/ ClosePeer(p)
    \/ OnDataChannelError
SpecClose == InitClose /\ [][NextClose]_vars

InitDial == NoWrite /\ SInit /\ BInit /\ NInit /\ CIdle /\ IIdle /\ OIdle /\ KIdle /\ GIdle /\ QIdle
NextDial ==
    \/ MainFails
    \/ MainSetsUp
    \/ MainCalls
    \/ MainWaitOpen
    \/ MainExchangeDone
    \/ MainSendDone
    \/ OnOpen
    \/ IceCandidate
    \/ IceWaitRemoteDescription
    \/ IceCheckIceDone
    \/ IceReadUuid
    \/ IceCheckSent
    \/ IceSendCandidate
    \/ IceStoreIceDone
    \/ TaskRead
    \/ TaskStreamEnded
    \/ TaskInit
    \/ TaskSetRemote
    \/ TaskStoreRemoteSet
    \/ TaskUpdate
    \/ \E p \in {"main", "task", "ice"} : OnceLoad(p) \/ OnceStore(p) \/ OnceSend(p)
SpecDial == InitDial /\ [][NextDial]_vars

\* the steps of the dial path, maybe_connect_via_webrtc itself
MainStep ==
    \/ MainFails
    \/ MainSetsUp
    \/ MainCalls
    \/ MainWaitOpen
    \/ MainExchangeDone
    \/ MainSendDone
    \/ OnceLoad("main") \/ OnceStore("main") \/ OnceSend("main")

\* the negotiation against a signalling server that may leave one of the
\* unary RPCs unanswered; the executor keeps running the dial path, and its
\* timers fire
InitDialSilent ==
    /\ NoWrite /\ SInit /\ BInit /\ NInit /\ CIdle /\ IIdle /\ OIdle /\ KIdle
    /\ g_silent \in {"none"} \cup UnaryRpcs
    /\ g_late = FALSE
    /\ QIdle
NextDialSilent == NextDial
SpecDialSilent == InitDialSilent /\ [][NextDialSilent]_vars /\ WF_vars(MainStep)

\* connect as far as the direct transport and the auth exchange, for every
\* combination of options with WebRTC disabled
InitTransport ==
    /\ NoWrite /\ SInit /\ BInit /\ NNotCalled /\ disable_trickle_ice = FALSE /\ IIdle /\ OIdle /\ KIdle /\ GIdle /\ QIdle
    /\ \E opts \in DialOptions : opts.disable_webrtc /\ CInit(opts)
NextTransport ==
    \/ Connect
    \/ OpenMdns
    \/ OpenPrimary
    \/ GetAuthToken
    \/ DirectOrWebRTC
SpecTransport == InitTransport /\ [][NextTransport]_vars

\* connect with the negotiation it runs; the primary URI is https and no
\* downgrade is allowed
InitConnect ==
    /\ NoWrite /\ SInit /\ BInit /\ NNotCalled /\ IIdle /\ OIdle /\ KIdle /\ GIdle /\ QIdle
    /\ \E opts \in DialOptions :
          ~opts.allow_downgrade /\ ~opts.insecure /\ CInit(opts)
NextConnect ==
    \/ Connect
    \/ OpenMdns
    \/ OpenPrimary
    \/ GetAuthToken
    \/ DirectOrWebRTC
    \/ ConnectReturns
    \/ NextDial
SpecConnect == InitConnect /\ [][NextConnect]_vars

\* inbound datagrams on a channel with open streams
InitInbound == NoWrite /\ SAllocated /\ BInit /\ NIdle /\ CIdle /\ IIdle /\ OIdle /\ KIdle /\ GIdle /\ QIdle
NextInbound == OnMessage
SpecInbound == InitInbound /\ [][NextInbound]_vars

\* writes on a channel that is being closed
InitSendClose ==
    /\ w_in \in {d \in WellFormedInputs : d.lens \in {<<10>>, <<10, 10>>}} /\ WIdle
    /\ SInit /\ BInit /\ NIdle /\ CIdle /\ IIdle /\ OIdle /\ KIdle /\ GIdle /\ QIdle
NextSendClose ==
    \/ WriteHeaders
    \/ WriteMessage
    \/ OuterLoop
    \/ InnerSend
    \/ InnerSendFails
    \/ \E p \in Closers : CloseCall(p) \/ CloseLoad(p) \/ CloseStore(p) \/ ClosePeer(p)
SpecSendClose == InitSendClose /\ [][NextSendClose]_vars

\* calls through a WebRTC channel that is new, or whose id counter has
\* come to its last value
InitCall ==
    /\ NoWrite /\ SInit /\ BInit /\ NIdle /\ CIdle /\ IIdle /\ OIdle /\ GIdle /\ QIdle
    /\ \E c \in {U64Zero, U64Max} : KInit(c)
NextCall ==
    \/ CallNewStream
    \/ CallWriteHeaders
    \/ CallWriteMessage
    \/ CallResponse
    \/ CallReturns
SpecCall == InitCall /\ [][NextCall]_vars

\* calls made at once on a new channel
InitCalls == NoWrite /\ SInit /\ BInit /\ NIdle /\ CIdle /\ IIdle /\ OIdle /\ KIdle /\ GIdle /\ QIdle
NextCalls ==
    \E c \in Calls :
        \/ QNewStream(c)
        \/ QWriteHeaders(c)
        \/ QSendPacket(c)
        \/ QSendFails(c)
        \/ QResponse(c)
SpecCalls == InitCalls /\ [][NextCalls]_vars

\* the base channel with a reader of its terminal-error slot
InitClosedReason == InitClose
NextClosedReason ==
    \/ NextClose
    \/ ReadClosedReason
SpecClosedReason == InitClosedReason /\ [][NextClosedReason]_vars

----------------------------------------------------------------------------
(* What the claims about write_message are stated in: the frames of a      *)
(* buffer, read off the buffer itself, and the receiving side's reassembly. *)

\* Plain byte sequences: what follows the first n bytes, and the first n.
Skip(P, n) == SubSeq(P, n + 1, Len(P))
Take(P, n) == SubSeq(P, 1, n)

\* The length a frame header declares.
DeclaredLen(P) == P[2] * 16777216 + P[3] * 65536 + P[4] * 256 + P[5]

\* P is one or more concatenated gRPC frames.
RECURSIVE IsFrames(_)
IsFrames(P) ==
    /\ Len(P) >= 5
    /\ Len(P) >= 5 + DeclaredLen(P)
    /\ \/ Len(P) = 5 + DeclaredLen(P)
       \/ IsFrames(Skip(P, 5 + DeclaredLen(P)))

\* The frames of P, each with its header (P satisfies IsFrames).
RECURSIVE FramesOf(_)
FramesOf(P) ==
    IF P = <<>> THEN <<>>
    ELSE <<Take(P, 5 + DeclaredLen(P))>>
         \o FramesOf(Skip(P, 5 + DeclaredLen(P)))

RECURSIVE Flatten(_)
Flatten(ss) == IF ss = <<>> THEN <<>> ELSE Head(ss) \o Flatten(Tail(ss))

FrameLensOf(P) == [i \in 1..Len(FramesOf(P)) |-> Len(FramesOf(P)[i]) - 5]
PayloadsOf(P) ==
    Flatten([i \in 1..Len(FramesOf(P)) |-> Skip(FramesOf(P)[i], 5)])
Uncompressed(P) == \A i \in 1..Len(FramesOf(P)) : FramesOf(P)[i][1] = 0

SentData == Flatten([i \in 1..Len(w_sent) |-> Bytes(w_sent[i].data)])
LastSent == w_sent[Len(w_sent)]

\* The receiving side's reassembly of Message frames (spec 4.4): append the
\* packet data to the buffer; on eom prepend the 5-byte header (0x00,
\* big-endian length), push the frame and clear the buffer.  eosAt is the
\* number of frames pushed when a packet with eos was first seen (0: never).
RECURSIVE ReassembleFrom(_, _, _, _, _)
ReassembleFrom(pkts, i, buf, frames, eosAt) ==
    IF i > Len(pkts) THEN [frames |-> frames, eosAt |-> eosAt]
    ELSE LET buf2    == buf \o Bytes(pkts[i].data)
             frames2 == IF pkts[i].eom
                        THEN Append(frames, GrpcHeader(0, Len(buf2)) \o buf2)
                        ELSE frames
             eosAt2  == IF pkts[i].eos /\ eosAt = 0 THEN Len(frames2) ELSE eosAt
         IN  ReassembleFrom(pkts, i + 1, IF pkts[i].eom THEN <<>> ELSE buf2,
                            frames2, eosAt2)

Reassemble(pkts) == ReassembleFrom(pkts, 1, <<>>, <<>>, 0)

\* The sizes and eom flags of the packets a frame of len bytes is cut into:
\* max(1, ceil(len / MAX)) packets, all full but the last, eom on the last.
PacketsOfFrame(len) ==
    LET M == MAX_REQUEST_MESSAGE_PACKET_DATA_SIZE
        n == IF len = 0 THEN 1 ELSE (len + M - 1) \div M
    IN  [i \in 1..n |-> IF i < n THEN <<M, FALSE>> ELSE <<len - (n - 1) * M, TRUE>>]

ExpectedShape(lens) == Flatten([i \in 1..Len(lens) |-> PacketsOfFrame(lens[i])])
SentShape == [i \in 1..Len(w_sent) |-> <<Len(Bytes(w_sent[i].data)), w_sent[i].eom>>]

----------------------------------------------------------------------------
(* Claims about write_message. *)

\* C3 as stated: when a call on a buffer P of concatenated gRPC frames
\* returns Ok, the concatenated packet data equals P byte for byte and the
\* last Message frame has eom.
C3_DataEqualsInput ==
    w_result = "Ok" => (SentData = Input /\ LastSent.eom)

\* C3, amended: when such a call returns Ok, the concatenated packet data
\* equals P with the 5-byte header of every frame removed (the payloads of
\* its frames, in order), and the last Message frame has eom.
C3_DataEqualsPayloads ==
    w_result = "Ok" =>
        /\ IsFrames(Input)
        /\ SentData = PayloadsOf(Input)
        /\ LastSent.eom

C3_Witness ==
    /\ w_result = "Ok"
    /\ Len(FramesOf(Input)) = 2
    /\ Len(w_sent) = 3
    /\ Len(SentData) = Len(Input) - 10

\* C4: no Message frame emitted by any call, on any input buffer and at any
\* point of the call, carries more than 16,373 bytes of packet data.
C4_PacketBounded ==
    \A i \in 1..Len(w_sent) :
        Len(Bytes(w_sent[i].data)) <= MAX_REQUEST_MESSAGE_PACKET_DATA_SIZE

C4_Witness ==
    /\ w_result = "Ok"
    /\ Len(Input) = 40005
    /\ Len(Bytes(w_sent[1].data)) = MAX_REQUEST_MESSAGE_PACKET_DATA_SIZE

\* C5: for a call on a buffer of concatenated gRPC frames, a packet with eos
\* is the last packet of the last frame (nothing is emitted after it and the
\* call returns Ok), and when the call returns Ok with E true or with more
\* than one frame in the buffer, the last Message frame has eos.
C5_EosOnLastOnly ==
    IsFrames(Input) =>
        /\ \A i \in 1..Len(w_sent) :
              w_sent[i].eos =>
                  i = Len(w_sent) /\ w_result = "Ok" /\ IsEmpty(w_data) /\ w_nml = 0
        /\ (w_result = "Ok" /\ (w_eos \/ Len(FramesOf(Input)) > 1)) => LastSent.eos

C5_Witness ==
    /\ w_result = "Ok"
    /\ w_eos
    /\ Len(FramesOf(Input)) = 3
    /\ LastSent.eos
    /\ ~w_sent[1].eos

\* C6 as stated: for any buffer of k >= 1 concatenated gRPC frames,
\* reassembling the emitted Message frames yields the same k frames in order,
\* with eos seen on the last when k > 1; for k = 1 and eos false the
\* reassembled frame equals the input.
C6_RoundTrip ==
    w_result = "Ok" =>
        /\ Reassemble(w_sent).frames = FramesOf(Input)
        /\ Len(FramesOf(Input)) > 1 =>
              Reassemble(w_sent).eosAt = Len(FramesOf(Input))
        /\ (Len(FramesOf(Input)) = 1 /\ ~w_eos) =>
              Flatten(Reassemble(w_sent).frames) = Input

\* C6, amended: the round trip holds for buffers whose frames all have the
\* compressed-flag byte 0x00 (the flag byte is not carried by the Message
\* frames, and reassembly always writes 0x00).
C6_RoundTripUncompressed ==
    (w_result = "Ok" /\ Uncompressed(Input)) =>
        /\ Reassemble(w_sent).frames = FramesOf(Input)
        /\ Len(FramesOf(Input)) > 1 =>
              Reassemble(w_sent).eosAt = Len(FramesOf(Input))
        /\ (Len(FramesOf(Input)) = 1 /\ ~w_eos) =>
              Flatten(Reassemble(w_sent).frames) = Input

C6_Witness ==
    /\ w_result = "Ok"
    /\ Uncompressed(Input)
    /\ ~w_eos
    /\ FrameLensOf(Input) = <<10, MAX_REQUEST_MESSAGE_PACKET_DATA_SIZE + 1>>
    /\ Len(Reassemble(w_sent).frames) = 2
    /\ Reassemble(w_sent).eosAt = 2

\* C7: a call on a buffer shorter than 5 bytes ends with the framing error
\* and has emitted no Message frame.
C7_ShortInputIsFramingError ==
    (w_pc = "done" /\ Len(Input) < 5) => (w_result = "Err" /\ w_sent = <<>>)

\* C8: when a call on concatenated gRPC frames returns Ok, each frame of
\* length L was emitted as max(1, ceil(L / 16373)) packets, all of 16373
\* bytes but the last, with eom on the last of them only; L = 16373 gives one
\* packet, L = 16374 gives 16373 + 1 with eom on the second only, and two
\* 10-byte messages give two packets, each eom, the second also eos.
C8_PacketCounts ==
    w_result = "Ok" =>
        /\ SentShape = ExpectedShape(FrameLensOf(Input))
        /\ FrameLensOf(Input) = <<16373>> => SentShape = << <<16373, TRUE>> >>
        /\ FrameLensOf(Input) = <<16374>> =>
              SentShape = << <<16373, FALSE>>, <<1, TRUE>> >>
        /\ FrameLensOf(Input) = <<10, 10>> =>
              /\ SentShape = << <<10, TRUE>>, <<10, TRUE>> >>
              /\ ~w_sent[1].eos
              /\ w_sent[2].eos

C8_Witness ==
    /\ w_result = "Ok"
    /\ FrameLensOf(Input) = <<16374>>
    /\ Len(w_sent) = 2
    /\ ~w_sent[1].eom
    /\ w_sent[2].eom

\* The request body of C9: one gRPC frame with a 40,000-byte message.
IsFortyK == Len(Input) = 40005 /\ DeclaredLen(Input) = 40000

----------------------------------------------------------------------------
(* Claims about stream ids. *)

\* C2: the ids one channel hands out, in the order of allocation and also
\* when the new_stream calls overlap, are strictly increasing: each is
\* greater than every id allocated before it, so none is handed out twice.
C2_StreamIdsIncrease ==
    \A i, j \in 1..Len(s_allocated) : i < j => s_allocated[i] < s_allocated[j]

C2_Witness ==
    /\ Len(s_allocated) >= 3
    /\ \E c, d \in Callers : c # d /\ s_pc[c] = "fetched" /\ s_pc[d] = "fetched"

----------------------------------------------------------------------------
(* Claims about the base channel. *)

\* C10: once a close has returned (Ok or with the peer connection's error),
\* is_closed() is true, in that state and in every later one; a close that
\* begins after a close has returned returns Ok and never invokes
\* peer_connection.close().
C10_ClosedAfterClose ==
    /\ (\E p \in Closers : b_pc[p] = "returned") => is_closed
    /\ \A p \in Closers :
          b_after[p] =>
              /\ ~b_closed_peer[p]
              /\ b_pc[p] \notin {"store", "peer"}
              /\ b_pc[p] = "returned" => b_ret[p] = "Ok"

C10_Witness ==
    \E p, q \in Closers :
        /\ b_pc[p] = "returned" /\ b_ret[p] = "Err" /\ b_closed_peer[p]
        /\ b_after[q] /\ b_pc[q] = "returned" /\ b_ret[q] = "Ok"

----------------------------------------------------------------------------
(* What the claims about the negotiation say.                              *)

\* the CallUpdates carrying Done or Error that reached the signalling server
DoneOrErrorUpdates == {i \in 1..Len(n_updates) : n_updates[i].kind \in {"Done", "Error"}}

\* C1: in every negotiation, under any interleaving of the ICE-candidate
\* callback, the response task and the dial path, at most one CallUpdate
\* carrying Done or Error is sent to the signalling server.
C1_AtMostOneDoneOrError == Cardinality(DoneOrErrorUpdates) <= 1

----------------------------------------------------------------------------
(* What the claims about connect say. *)

\* maybe_connect_via_webrtc was never called: no signalling RPC was issued
\* (OptionalWebRTCConfig, Call, CallUpdate) and no peer connection, client
\* channel or response task exists
NoSignalling ==
    /\ n_pc = [p \in {"main", "task", "ice"} |->
                  IF p = "main" THEN "uncalled" ELSE IF p = "task" THEN "unspawned" ELSE "idle"]
    /\ n_updates = <<>>
    /\ n_channel = "none"
    /\ n_gathered = "off"
    /\ n_result = "none"

\* the connections attempted to the discovered address, and to the primary URI
MdnsAttempts == SelectSeq(c_attempts, LAMBDA a : a.target = "mdns")
PrimaryAttempts == SelectSeq(c_attempts, LAMBDA a : a.target = "primary")

\* connect is past the opening of the direct transport
TransportSettled == c_pc \in {"auth", "webrtc", "negotiating", "returned"} /\ c_discovery # "none"

\* C11: with WebRTC enabled, once the direct transport is open and the auth
\* exchange (if any) has succeeded, connect never returns an error: when
\* maybe_connect_via_webrtc fails (config fetch, Call, or the data channel
\* not opening in time), connect returns Direct over that transport.
C11_WebRTCFailureFallsBack ==
    (~c_opts.disable_webrtc /\ n_pc["main"] # "uncalled") =>
        /\ c_channel # "none"
        /\ c_result # "Err"
        /\ (c_pc = "returned" /\ n_result = "Err") => c_result = "Direct"
        /\ (c_pc = "returned" /\ n_result = "Ok") => c_result = "WebRTC"

C11_Witness ==
    /\ c_pc = "returned"
    /\ c_opts.creds /\ c_auth = "ok"
    /\ n_result = "Err"
    /\ n_channel = "dropped"
    /\ c_result = "Direct"

\* C12: with disable_webrtc set, with or without credentials, connect
\* returns Direct whenever it succeeds, and at no point is a signalling RPC
\* issued or a peer connection created.
C12_DisabledWebRTCIsDirect ==
    c_opts.disable_webrtc =>
        /\ c_result \in {"none", "Err", "Direct"}
        /\ NoSignalling

C12_Witness ==
    /\ c_opts.disable_webrtc
    /\ c_opts.creds /\ c_auth = "ok"
    /\ c_pc = "returned"
    /\ c_result = "Direct"

\* C13: with credentials, Authenticate is performed only once the direct
\* transport is open and has succeeded before any signalling RPC and before
\* any channel is returned; if it fails, connect returns an error, no
\* channel, and the negotiation is never started.
C13_AuthBeforeSignalling ==
    /\ c_auth # "none" => (c_opts.creds /\ c_channel # "none")
    /\ (c_opts.creds /\ (~NoSignalling \/ c_result \in {"Direct", "WebRTC"})) => c_auth = "ok"
    /\ c_auth = "failed" => (c_pc = "returned" /\ c_result = "Err" /\ NoSignalling)

C13_Witness ==
    /\ c_opts.creds /\ ~c_opts.disable_webrtc
    /\ c_auth = "failed"
    /\ c_channel = "mdns"
    /\ c_result = "Err"

\* C14: when the first connection to the primary URI fails, then without
\* allow_downgrade no other is attempted and connect fails; with
\* allow_downgrade exactly one more is attempted, with the scheme http on the
\* same uri, and connect fails at this point only if that one fails too.
C14_DowngradeRetriesOnce ==
    (TransportSettled /\ PrimaryAttempts # <<>>) =>
        /\ PrimaryAttempts[1].scheme = PrimaryScheme(c_opts)
        /\ PrimaryAttempts[1].ok => (Len(PrimaryAttempts) = 1 /\ c_channel = "primary")
        /\ (~PrimaryAttempts[1].ok /\ ~c_opts.allow_downgrade) =>
              /\ Len(PrimaryAttempts) = 1
              /\ c_pc = "returned" /\ c_result = "Err" /\ c_channel = "none"
        /\ (~PrimaryAttempts[1].ok /\ c_opts.allow_downgrade) =>
              /\ Len(PrimaryAttempts) = 2
              /\ PrimaryAttempts[2].scheme = "http"
              /\ PrimaryAttempts[2].ok => (c_channel = "primary" /\ c_auth # "failed" => c_result # "Err")
              /\ ~PrimaryAttempts[2].ok => (c_pc = "returned" /\ c_result = "Err")

C14_Witness ==
    /\ c_opts.allow_downgrade /\ ~c_opts.insecure
    /\ Len(PrimaryAttempts) = 2
    /\ ~PrimaryAttempts[1].ok /\ PrimaryAttempts[1].scheme = "https"
    /\ PrimaryAttempts[2].ok
    /\ c_result = "Direct"

\* C15: with mDNS disabled no discovery is run and nothing is attempted at
\* a discovered address; when discovery finds no responder, passes its
\* deadline or gives an unusable address, or the connection to the
\* discovered address fails, the transport to the primary URI is attempted;
\* connect fails only for want of a uri, a failed primary transport or a
\* failed Authenticate.
C15_MdnsNeverFatal ==
    /\ c_opts.disable_mdns => (c_discovery \in {"none", "not_run"} /\ MdnsAttempts = <<>>)
    /\ (TransportSettled /\ c_channel # "mdns") => PrimaryAttempts # <<>>
    /\ c_result = "Err" =>
          \/ c_discovery = "none"
          \/ PrimaryAttempts # <<>> /\ ~PrimaryAttempts[Len(PrimaryAttempts)].ok
          \/ c_auth = "failed"

C15_Witness ==
    /\ c_discovery = "found"
    /\ MdnsAttempts # <<>> /\ ~MdnsAttempts[Len(MdnsAttempts)].ok
    /\ c_channel = "primary"
    /\ c_result = "Direct"

----------------------------------------------------------------------------
(* Inbound dispatch, sends on a closed channel, and the terminal-error     *)
(* slot.                                                                   *)

\* C16: on every stream the client takes Headers, then Messages, then at most
\* one Trailers.  A second Headers frame, or a Message frame before any
\* Headers frame, dispatched to an open stream of the table closes that
\* stream with a protocol error, gives its body sink the synthetic status
\* unknown and is reported as an error; a body sink is given frames only
\* after Headers, and nothing after a status.
C16_FrameOrderEnforced ==
    /\ [](\A t \in StreamIds :
            LET st == i_streams[t]
            IN  /\ \A k \in 1..Len(st.sink) :
                      /\ st.sink[k].kind = "frame" => st.headers_received
                      /\ st.sink[k].kind = "status" => k = Len(st.sink)
                /\ st.closed = "protocol error" =>
                      /\ st.sink # <<>>
                      /\ st.sink[Len(st.sink)] = [kind |-> "status", value |-> "unknown"])
    /\ [][\A t \in StreamIds :
            LET st == i_streams[t]
                f == i_last'
                deviation == \/ f.type = "Headers" /\ st.headers_received
                             \/ f.type = "Message" /\ ~st.headers_received
            IN  (/\ i_count' = i_count + 1
                 /\ f.has_stream /\ f.stream = t
                 /\ t \in streams /\ st.closed = "no"
                 /\ deviation)
                => /\ i_streams'[t].closed = "protocol error"
                   /\ i_streams'[t].sink = Append(st.sink, [kind |-> "status", value |-> "unknown"])
                   /\ i_error' = "Some"]_vars

\* One stream was closed by a second Headers frame and another by a Message
\* frame that came before any Headers frame.
C16_Witness ==
    \E t, u \in StreamIds :
        /\ i_streams[t].closed = "protocol error" /\ i_streams[t].headers_received
        /\ i_streams[u].closed = "protocol error" /\ ~i_streams[u].headers_received
        /\ i_streams[u].sink = <<[kind |-> "status", value |-> "unknown"]>>
        /\ i_last.type = "Headers" /\ i_last.has_stream /\ i_last.stream = t

\* C17: dispatching a Trailers frame for stream s removes s from the stream
\* table; a stream that has had its Trailers is not in the table; and a later
\* frame carrying the id of a stream no longer in the table changes no
\* stream and no body sink.
C17_NothingAfterTrailers ==
    /\ [](\A t \in StreamIds : i_streams[t].trailers_received => t \notin streams)
    /\ [][\A t \in StreamIds :
            (i_count' = i_count + 1 /\ i_last'.has_stream /\ i_last'.stream = t)
            => /\ i_last'.type = "Trailers" => t \notin streams'
               /\ t \notin streams => i_streams' = i_streams /\ i_error' = "Some"]_vars

\* A Message frame was dispatched for a stream whose Trailers had been
\* delivered; the stream's sink ends with the trailers.
C17_Witness ==
    \E t \in StreamIds :
        /\ i_streams[t].trailers_received
        /\ t \notin streams
        /\ i_streams[t].sink # <<>>
        /\ i_streams[t].sink[Len(i_streams[t].sink)] = [kind |-> "status", value |-> "trailers"]
        /\ i_last.type = "Message" /\ i_last.has_stream /\ i_last.stream = t
        /\ i_error = "Some"

\* C18: the dispatch of one inbound datagram, whatever it decodes to, leaves
\* every stream other than the one it names as it was (table entry, flags,
\* reassembly buffer, sink, pending response body), and leaves the base
\* channel's closed flag, should_close flag and close calls as they were.
C18_SiblingsUntouched ==
    [][i_count' = i_count + 1
       => /\ \A t \in StreamIds :
                (~i_last'.has_stream \/ i_last'.type = "undecodable" \/ i_last'.stream # t)
                => /\ i_streams'[t] = i_streams[t]
                   /\ (t \in streams') = (t \in streams)
                   /\ (t \in receiver_bodies') = (t \in receiver_bodies)
          /\ receiver_bodies' = receiver_bodies
          /\ closed' = closed /\ should_close' = should_close
          /\ pc_close_calls' = pc_close_calls]_vars

\* A protocol violation on one stream was dispatched while another stream
\* held received Headers and a partly reassembled message.
C18_Witness ==
    \E t, u \in StreamIds :
        /\ t # u
        /\ i_last.has_stream /\ i_last.stream = t
        /\ i_streams[t].closed = "protocol error"
        /\ u \in streams /\ u \in receiver_bodies
        /\ i_streams[u].headers_received
        /\ i_streams[u].packet_buffer # <<>>
        /\ i_streams[u].closed = "no"
        /\ ~closed

\* C19: once the closed flag is true, write_headers and write_message hand
\* no frame to the data channel.
C19_NoSendAfterClosed ==
    [][closed => (h_sent' = h_sent /\ w_sent' = w_sent)]_vars

\* C20: a data-channel error is stored in the terminal-error slot and does
\* not close the channel; close does not change the slot; and a reader of
\* the slot after close gets the error that was stored.
C20_StoredErrorReadable ==
    (b_read.seen # "unread" /\ b_read.after_close /\ b_read.held = "error")
    => b_read.seen = "error"

\* the parts of C20 that do not read through the pointer: the error callback
\* alone writes the slot, and only a call of close sets the closed flag
C20_SlotWrittenOnlyByCallback ==
    /\ [][closed_reason' # closed_reason => (closed_reason' = "error" /\ should_close')]_vars
    /\ [](closed => \E p \in Closers : b_pc[p] \in {"peer", "returned"})

----------------------------------------------------------------------------
(* Claims about how a negotiation ends.                                    *)

\* C22: maybe_connect_via_webrtc returns a client channel only after the
\* data channel's open event was observed; when it returns success,
\* exchange_done is set and a Done update has been issued to the signalling
\* server (sent, or its call_update is being made); when open is not observed
\* within the bounded wait it returns an error.
C22_SuccessMeansOpenAndDone ==
    n_pc["main"] = "returned" =>
        /\ n_result = "Ok" =>
              /\ is_open
              /\ exchange_done
              /\ \/ \E i \in 1..Len(n_updates) : n_updates[i].kind = "Done"
                 \/ \E p \in {"main", "task", "ice"} :
                        n_pc[p] = "once_send" /\ n_once[p].kind = "Done"
        /\ (n_channel = "dropped" /\ ~is_open) => n_result = "Err"

\* C23: a negotiation that has ended in a timeout or error (the Call stream
\* gave an error or timed out, or the data channel never opened), with the
\* dial path returned, the response task stopped and ICE gathering over, has
\* sent exactly one Done-or-Error update.
C23_EndedNegotiationSentOne ==
    (/\ n_pc["main"] = "returned" /\ n_result = "Err" /\ n_channel = "dropped"
     /\ n_pc["task"] = "stopped"
     /\ n_pc["ice"] = "idle" /\ n_gathered \in {"off", "complete"})
    => Cardinality(DoneOrErrorUpdates) = 1

\* C28: when an Error update was sent for a negotiation, the dial path does
\* not return a client channel: maybe_connect_via_webrtc returns an error.
C28_ErrorSentMeansFailure ==
    (/\ n_pc["main"] = "returned"
     /\ \E i \in 1..Len(n_updates) : n_updates[i].kind = "Error")
    => n_result = "Err"

\* C29: every CallUpdate sent (Candidate, Done or Error) carries the session
\* uuid the server gave in its Init response, never an empty or another uuid.
C29_UpdatesCarrySessionUuid ==
    \A i \in 1..Len(n_updates) :
        /\ n_updates[i].uuid # ""
        /\ init_received
        /\ n_updates[i].uuid = uuid_lock

----------------------------------------------------------------------------
(* Claims about the ICE-candidate callback and the response loop.          *)

\* C26: a Candidate update is sent only when the remote description has been
\* set, and a candidate callback whose bounded wait ends without
\* remote_description_set returns without sending anything.
C26_CandidateAfterRemoteDescription ==
    [][/\ (/\ Len(n_updates') = Len(n_updates) + 1
           /\ n_updates'[Len(n_updates')].kind = "Candidate")
          => remote_description_set
       /\ (/\ n_pc["ice"] = "wait_rds" /\ n_pc'["ice"] # "wait_rds"
           /\ ~remote_description_set)
          => /\ n_pc'["ice"] = "idle"
             /\ n_updates' = n_updates
             /\ n_once'["ice"] = NoOnce]_vars

\* A Candidate update was sent, on the session uuid, after the remote
\* description was set.
C26_Witness ==
    /\ ~disable_trickle_ice
    /\ remote_description_set
    /\ \E i \in 1..Len(n_updates) :
          n_updates[i] = [kind |-> "Candidate", uuid |-> uuid_lock]

\* C27: in the response loop a second Init, an Update before any Init and an
\* Update whose uuid differs from the stored one each lead to send_error_once;
\* the Error update is sent unless the done-or-error flag was already set;
\* and the task then stops: it reads no further response and adds no further
\* candidate.
C27_ViolationSendsErrorAndStops ==
    [][LET violation == \/ n_pc["task"] = "init" /\ init_received
                        \/ n_pc["task"] = "update" /\ (~init_received \/ n_resp.uuid # uuid_lock)
           moves == n_pc'["task"] # n_pc["task"]
           error == n_once["task"].kind = "Error"
       IN  /\ (violation /\ moves)
              => /\ n_pc'["task"] = "once_load"
                 /\ n_once'["task"] = [kind |-> "Error", uuid |-> uuid_lock]
           /\ (n_pc["task"] = "once_load" /\ error /\ moves)
              => IF sent_done_or_error
                 THEN n_pc'["task"] = "stopped" /\ n_updates' = n_updates
                 ELSE n_pc'["task"] = "once_store"
           /\ (n_pc["task"] = "once_store" /\ error /\ moves)
              => n_pc'["task"] = "once_send" /\ sent_done_or_error'
           /\ (n_pc["task"] = "once_send" /\ error /\ moves)
              => /\ n_pc'["task"] = "stopped"
                 /\ n_updates' = Append(n_updates, n_once["task"])
           /\ n_pc["task"] = "stopped"
              => /\ n_pc'["task"] = "stopped"
                 /\ n_reads' = n_reads
                 /\ n_resp' = n_resp
                 /\ n_remote_candidates' = n_remote_candidates]_vars

\* An Update came before any Init: the Error was sent and the task stopped.
C27_Witness ==
    /\ ~init_received
    /\ n_reads = 1
    /\ n_pc["task"] = "stopped"
    /\ n_updates = <<[kind |-> "Error", uuid |-> ""]>>

----------------------------------------------------------------------------
(* Claims about the order of delivery and about concurrent closes.         *)

\* C21: within one stream, each complete gRPC frame goes to the response
\* body once, in the order its packets arrived: a body sink only grows, by
\* one delivery per datagram; a Message packet for an allocated, open stream
\* that has had its Headers is added to the end of the reassembly buffer, and
\* with eom the reassembled frame is appended to the sink; Trailers append
\* the end of the stream, after which the sink does not change.
C21_FramesInArrivalOrder ==
    [][\A t \in StreamIds :
          LET st == i_streams[t]
              st2 == i_streams'[t]
              f == i_last'
              buf == st.packet_buffer \o f.data
              allocated == \E k \in 1..Len(s_allocated) : s_allocated[k] = t
              ended == st.sink # <<>> /\ st.sink[Len(st.sink)].kind = "status"
              dispatched == /\ i_count' = i_count + 1
                            /\ f.has_stream /\ f.stream = t
                            /\ allocated /\ st.closed = "no"
          IN  /\ \/ st2.sink = st.sink
                 \/ \E d \in {st2.sink[Len(st2.sink)]} : st2.sink = Append(st.sink, d)
              /\ ended => st2.sink = st.sink
              /\ (dispatched /\ f.type = "Message" /\ st.headers_received)
                 => IF f.eom
                    THEN /\ st2.sink = Append(st.sink, [kind |-> "frame",
                                                        value |-> GrpcHeader(0, Len(buf)) \o buf])
                         /\ st2.packet_buffer = <<>>
                    ELSE /\ st2.sink = st.sink
                         /\ st2.packet_buffer = buf
              /\ (dispatched /\ f.type = "Trailers")
                 => st2.sink = Append(st.sink, [kind |-> "status", value |-> "trailers"])]_vars

\* A reply of two messages, the one-byte message first, was read as those
\* two messages in that order, followed by the end of the stream.
C21_Witness ==
    \E t \in StreamIds :
        i_streams[t].sink = << [kind |-> "frame", value |-> GrpcHeader(0, 1) \o <<7>>],
                               [kind |-> "frame", value |-> GrpcHeader(0, 0)],
                               [kind |-> "status", value |-> "trailers"] >>

\* C30: when calls of close on one base channel overlap, the peer
\* connection's close is invoked exactly once.
C30_ConcurrentCloseOnce ==
    (\E p \in Closers : b_pc[p] \in {"peer", "returned"}) => pc_close_calls <= 1

----------------------------------------------------------------------------
(* Claims about the log.                                                   *)

\* a line containing the prefix a comes before a line containing the prefix b
LoggedBefore(a, b) ==
    \E i, j \in 1..Len(c_log) : i < j /\ Contains(c_log[i], a) /\ Contains(c_log[j], b)

\* C25: a successful dial has logged Dialing before Connected via gRPC (a
\* direct channel) or Connected via WebRTC (a WebRTC channel) and, with
\* credentials, Acquiring auth token before Acquired auth token; dialdbg's
\* parser accepts the log of a direct dial and computes the connection time.
C25_LogPrefixesInOrder ==
    (c_pc = "returned" /\ c_result \in {"Direct", "WebRTC"}) =>
        /\ c_result = "Direct" => LoggedBefore(DIAL_ATTEMPT, DIALED_GRPC)
        /\ c_result = "WebRTC" => LoggedBefore(DIAL_ATTEMPT, DIALED_WEBRTC)
        /\ c_opts.creds => LoggedBefore(ACQUIRING_AUTH_TOKEN, ACQUIRED_AUTH_TOKEN)
        /\ c_result = "Direct" =>
              /\ parse_grpc_logs(c_log).ok
              /\ parse_grpc_logs(c_log).connection

----------------------------------------------------------------------------
(* Claims about call.                                                      *)

----------------------------------------------------------------------------
(* Claims about the negotiation's waits, flags and late events.            *)

\* C31: maybe_connect_via_webrtc always returns, also when the signalling
\* server never answers one of the unary RPCs or the data channel never
\* opens.
C31_DialAlwaysReturns == <>(n_result # "none")

\* C32: with trickle ICE disabled, once the answer of the Init response is
\* set as the remote description the task reads no further response, a Done
\* update is sent (by the task, or by the dial path whose Done it found
\* already under way), and no Candidate update is ever sent.
C32_NoTrickleDoneAndStop ==
    [][ (disable_trickle_ice /\ remote_description_set) =>
            /\ n_reads' = n_reads
            /\ n_pc'["task"] \in {"once_load", "once_store", "once_send", "stopped"}
            /\ \A i \in 1..Len(n_updates') : n_updates'[i].kind # "Candidate"
            /\ n_pc'["task"] = "stopped" =>
                   \/ \E i \in 1..Len(n_updates') : n_updates'[i].kind = "Done"
                   \/ \E p \in {"main", "task"} :
                          n_pc'[p] = "once_send" /\ n_once'[p].kind = "Done" ]_vars

C32_Witness ==
    /\ disable_trickle_ice
    /\ remote_description_set
    /\ n_pc["task"] = "stopped"
    /\ n_reads = 1
    /\ \E i \in 1..Len(n_updates) :
          n_updates[i].kind = "Done" /\ n_updates[i].uuid = uuid_lock

\* C33: the flags init-received, remote-description-set, ice-done,
\* exchange-done, data-channel-open and done-or-error-sent never go back from
\* true to false, and the session uuid is written only by the handler of the
\* first Init response, so at most once.
C33_FlagsMonotonicUuidOnce ==
    [][ /\ init_received => init_received'
        /\ remote_description_set => remote_description_set'
        /\ ice_done => ice_done'
        /\ exchange_done => exchange_done'
        /\ is_open => is_open'
        /\ sent_done_or_error => sent_done_or_error'
        /\ (uuid_lock' # uuid_lock \/ (n_pc["task"] = "init" /\ n_pc'["task"] = "set_remote")) =>
               /\ ~init_received /\ init_received'
               /\ n_pc["task"] = "init" /\ n_resp.stage = "Init"
               /\ uuid_lock = "" /\ uuid_lock' = n_resp.uuid ]_vars

C33_Witness ==
    /\ init_received /\ remote_description_set /\ ice_done /\ exchange_done
    /\ is_open /\ sent_done_or_error
    /\ uuid_lock \in Uuids
    /\ n_reads = MaxResponses

----------------------------------------------------------------------------
(* Claims about concurrent calls.                                          *)

\* the frames of q_out that carry stream id s, in order
OutboundOf(s) == SelectSeq(q_out, LAMBDA f : f.stream = s)

----------------------------------------------------------------------------
(* Claims about the dropped channel and the order of updates.              *)

\* C35: a signalling response that arrives after the client channel was
\* dropped has no effect: the task issues no update for it.
C35_LateResponseHasNoEffect == g_late => n_once["task"] = NoOnce

\* C36: a remote ICE candidate is added to the peer connection only by the
\* handler of an Update response, after an Init response was received and its
\* answer set as the remote description; a negotiation whose answer did not
\* decode or could not be set never adds one.
C36_RemoteCandidateAfterAnswer ==
    [][ /\ n_remote_candidates' # n_remote_candidates =>
               /\ n_pc["task"] = "update" /\ n_resp.stage = "Update"
               /\ init_received /\ remote_description_set
               /\ n_remote_candidates' = n_remote_candidates + 1
        /\ ~remote_description_set' => n_remote_candidates' = 0 ]_vars

C36_Witness ==
    /\ n_remote_candidates = 1
    /\ remote_description_set
    /\ n_reads = 2
    /\ n_pc["task"] = "read"

----------------------------------------------------------------------------
(* Claims about write_message on irregular buffers.                        *)

\* C37: write_message terminates on every buffer of at least 5 bytes: each
\* pass of the inner loop that does not leave it consumes some of the data
\* or of the declared message length, so only finitely many passes follow.
C37_InnerLoopConsumes ==
    [][ (w_pc = "inner" /\ w_pc' = "inner") =>
            w_data'.len + w_nml' < w_data.len + w_nml ]_vars

\* C38: a call that returns the framing error for irregular length has sent
\* no Message frame.
C38_FramingErrorSendsNothing ==
    (w_pc = "done" /\ w_result = "Err") => w_sent = <<>>

----------------------------------------------------------------------------
(* Claims about a call whose Headers frame could not be sent.              *)

\* C39: when the send of a call's Headers frame fails, the stream is removed
\* from the stream table, no Message frame is sent for it afterwards, and
\* the response carries grpc-status 2.
C39_HeadersFailureStopsTheCall ==
    (k_pc = "done" /\ \A i \in 1..Len(k_frames) : k_frames[i] # "Headers") =>
        /\ k_id \notin k_streams
        /\ k_frames = <<>>
        /\ k_response.grpc_status = <<STATUS_CODE_UNKNOWN>>

----------------------------------------------------------------------------
(* Claims about candidates and the final update.                           *)

\* C40: no Candidate update is sent to the signalling server after the Done
\* or Error update of the negotiation.
C40_NoCandidateAfterDoneOrError ==
    \A i, j \in 1..Len(n_updates) :
        (i < j /\ n_updates[i].kind \in {"Done", "Error"}) => n_updates[j].kind # "Candidate"

====
